---------------------------- MODULE Spec2Model ----------------------------
(*
  Model of the RER-Kilo control plane (src/app/api.py), the scanner loop
  (src/app/scanner.py), the candidate store (src/app/storage.py), the IQ
  samplers (src/app/hw_capture.py) and the auto-tuning demodulator
  (src/app/demod_autotune.py).

  Conventions
    * Frequencies are in MHz (5658 stands for 5658000000 Hz).
    * The control plane is an asyncio program: a request handler or a scanner
      task runs without interruption from one real suspension point to the
      next.  `await _broadcast(...)`, `await _load_config(...)`,
      `await _start_demod(...)` and `await _stop_demod()` never suspend (they
      contain no awaiting of a pending future), so each HTTP handler is one
      atomic action; the scanner task suspends only in
      `await asyncio.sleep(...)`, so it is one action per dwell.
    * Floating point values are modelled as exact rationals [n, d] in lowest
      terms; raw measurements (band power, SNR in dB) are integers chosen by
      the environment.
    * No /events subscriber is connected: _broadcast returns at its first
      line, so broadcasts change no state.
*)
EXTENDS Integers, Sequences, FiniteSets, TLC

VARIABLES
    scanning,                   \* AppState.scanning
    focused_freq_hz,            \* AppState.focused_freq_hz (0 = None)
    stop_event,                 \* AppState.stop_event is set
    scanner_task,               \* AppState.scanner_task: "none" | "pending" | "sleeping" | "done"
    demod_proc,                 \* AppState.demod_proc: "none" or the module of the Popen handle
    demod_alive,                \* the process behind the last Popen is alive
    was_scanning_before_focus,  \* AppState.was_scanning_before_focus
    config,                     \* AppState.config (a dict: function on the keys present)
    cfgfile,                    \* content of config/channels.json ("missing" or a dict)
    scanner,                    \* the Scanner object of the current or last scanner task
    db,                         \* the candidates table: freq_hz -> row
    ncap,                       \* number of sampler.capture calls made so far
    env,                        \* the environment: what the sampler may measure (meas),
                                \* how many captures a behaviour holds (cap), by how
                                \* much the clock may advance (ticks) and up to when (tmax)
    clock,                      \* the wall clock (time.time(), datetime.now()), in ms
    subscribers,                \* AppState.subscribers: the clients whose queue is in the set
    queues,                     \* client of an open GET /events -> the number of items
                                \* in the queue of its event_stream
    tuner,                      \* the demodulator process: its HackRFStream and the
                                \* locals of demod_autotune.run()
    op,                         \* the last step taken and, in order, what it did
    hist                        \* history: what the claims refer back to

vars == <<scanning, focused_freq_hz, stop_event, scanner_task, demod_proc,
          demod_alive, was_scanning_before_focus, config, cfgfile, scanner,
          db, ncap, env, subscribers, queues, clock, tuner, op, hist>>

-----------------------------------------------------------------------------
(* Bounds of the model *)

\* captures over one behaviour of the control-plane specification
MaxCaptures == 2
\* captures over one behaviour of the configuration specification
MaxCfgCaptures == 2
\* loop iterations of one Scanner object in the scanner specification
MaxObs == 5

-----------------------------------------------------------------------------
(* Exact rational arithmetic *)

Abs(x) == IF x < 0 THEN -x ELSE x

Min(a, b) == IF a <= b THEN a ELSE b

Max(a, b) == IF a >= b THEN a ELSE b

RECURSIVE Gcd(_, _)
Gcd(a, b) == IF b = 0 THEN a ELSE Gcd(b, a % b)

\* the rational n/d (d > 0) in lowest terms
Rat(n, d) ==
    LET g == Gcd(Abs(n), d)
    IN  IF n = 0 THEN [n |-> 0, d |-> 1] ELSE [n |-> n \div g, d |-> d \div g]

RInt(i) == [n |-> i, d |-> 1]

Lcm(a, b) == (a \div Gcd(a, b)) * b

\* the numerator of x over the denominator l (a multiple of x.d)
Over(x, l) == x.n * (l \div x.d)

RAdd(x, y) ==
    LET l == Lcm(x.d, y.d) IN Rat(Over(x, l) + Over(y, l), l)

RSub(x, y) ==
    LET l == Lcm(x.d, y.d) IN Rat(Over(x, l) - Over(y, l), l)

RMul(x, y) ==
    LET a == Rat(x.n, y.d)
        b == Rat(y.n, x.d)
    IN  Rat(a.n * b.n, a.d * b.d)

RLe(x, y) ==
    LET l == Lcm(x.d, y.d) IN Over(x, l) <= Over(y, l)

RLt(x, y) ==
    LET l == Lcm(x.d, y.d) IN Over(x, l) < Over(y, l)

ROne == RInt(1)


\* round(float(x), 2): to hundredths, ties to even
Round2(x) ==
    LET h   == x.n * 100
        q   == h \div x.d
        rem == h % x.d
        up  == \/ 2 * rem > x.d
               \/ (2 * rem = x.d /\ q % 2 = 1)
    IN  Rat(IF up THEN q + 1 ELSE q, 100)

-----------------------------------------------------------------------------
(* Configuration: api.py _load_config, _scanner_loop *)

EmptyDict == [k \in {} |-> 0]

Raceband == <<5658, 5695, 5732, 5769, 5806, 5843, 5880, 5917>>

\* the "fallback minimal config" literal of _load_config
FallbackConfig ==
    [bands             |-> << [name |-> "Raceband", channels |-> Raceband] >>,
     dwell_ms          |-> 15,
     sample_rate       |-> 8000000,
     channel_bw_hz     |-> 8000000,
     min_snr_db        |-> 6,
     alert_persistence |-> [hits |-> 3, window |-> 5],
     dc_guard_hz       |-> 50000]

\* dict.get(k, default)
Get(d, k, default) == IF k \in DOMAIN d THEN d[k] ELSE default

\* A JSON value of another type than the code expects is written as a value
\* of the expected type with its place listed under the key "bad" of the
\* configuration: "dwell_ms", "sample_rate", "channel_bw_hz", "min_snr_db",
\* "hits", "window" (a string that is no number), "bands" (not a list),
\* "band" (a list of values that are no objects), "alert_persistence" (not
\* an object).  "bad" is no key of the dict itself.
Bad(cfg) == Get(cfg, "bad", {})

\* a dict is falsy iff it is empty; a list is falsy iff it is empty
Truthy(d) == DOMAIN d \ {"bad"} # {}

NoFile == [exists |-> FALSE, content |-> EmptyDict]

File(c) == [exists |-> TRUE, content |-> c]

\* _load_config(path): the file's JSON when it exists, else the fallback
LoadConfig(file) == IF file.exists THEN file.content ELSE FallbackConfig

\* what _scanner_loop reads: app_state.config or await _load_config(path)
EffectiveConfig(cfg, file) == IF Truthy(cfg) THEN cfg ELSE LoadConfig(file)

\* for b in bands: freqs.extend(int(x) for x in b.get("channels", []))
RECURSIVE BandFreqs(_)
BandFreqs(bands) ==
    IF bands = <<>> THEN <<>>
    ELSE Get(Head(bands), "channels", <<>>) \o BandFreqs(Tail(bands))

\* the channel list _scanner_loop hands to Scanner
ConfigFreqs(cfg) ==
    LET bands == Get(cfg, "bands", <<>>)
        freqs == BandFreqs(bands)
    IN  IF freqs = <<>> THEN Raceband ELSE freqs

-----------------------------------------------------------------------------
(* The Scanner object: scanner.py Scanner.__init__ *)

Range(s) == {s[k] : k \in DOMAIN s}

EmaAlphaApi == [n |-> 1, d |-> 10]

\* Scanner.__init__ (dwell_ms at its default), with the frame of run():
\* i is the position of `for f in self.freqs_hz`, last_push the local of that
\* name (ms), wake_at the time at which `asyncio.sleep` is over
NewScanner(freqs, min_snr, hits, window, alpha) ==
    [freqs_hz         |-> freqs,
     min_snr_db       |-> min_snr,
     alert_hits       |-> hits,
     alert_window     |-> window,
     ema_alpha        |-> alpha,
     ema_power_dbm    |-> [f \in Range(freqs) |-> RInt(-60)],
     ema_snr_db       |-> [f \in Range(freqs) |-> RInt(0)],
     activity_windows |-> [f \in Range(freqs) |-> <<>>],
     dwell_ms         |-> 15,
     sample_rate_hz   |-> 8000000,
     channel_bw_hz    |-> 8000000,
     i                |-> 0,
     last_push        |-> 0,
     wake_at          |-> 0]

\* no Scanner has been constructed yet
NoScanner == NewScanner(<<>>, 0, 0, 0, EmaAlphaApi)

\* a variant of ScannerFromConfig: the Scanner is built with the defaults of
\* its constructor for everything but the channels
ScannerFromDefaults(cfg) ==
    NewScanner(ConfigFreqs(cfg), 6, 3, 5, EmaAlphaApi)

\* _scanner_loop up to the Scanner(...) call
ScannerFromConfig(cfg) ==
    LET alert == Get(cfg, "alert_persistence", [hits |-> 3, window |-> 5])
    IN  [NewScanner(ConfigFreqs(cfg),
                    Get(cfg, "min_snr_db", 6),
                    Get(alert, "hits", 3),
                    Get(alert, "window", 5),
                    EmaAlphaApi)
           EXCEPT !.dwell_ms = Get(cfg, "dwell_ms", 15),
                  !.sample_rate_hz = Get(cfg, "sample_rate", 8000000),
                  !.channel_bw_hz = Get(cfg, "channel_bw_hz", 8000000)]

\* _scanner_loop raises before the Scanner is built: `for b in bands` on a
\* value that cannot be iterated, b.get on a value that is no dict, int() or
\* float() on a string that is no number, alert.get on a value that is no
\* dict
ConfigRaises(cfg) ==
    \/ "bands" \in DOMAIN cfg /\ Bad(cfg) \cap {"bands", "band"} # {}
    \/ \E k \in {"dwell_ms", "sample_rate", "channel_bw_hz", "min_snr_db"} :
          k \in DOMAIN cfg /\ k \in Bad(cfg)
    \/ /\ "alert_persistence" \in DOMAIN cfg
       /\ \/ "alert_persistence" \in Bad(cfg)
          \/ \E k \in {"hits", "window"} :
                k \in DOMAIN cfg.alert_persistence /\ k \in Bad(cfg)

-----------------------------------------------------------------------------
(* One iteration of the sweep loop: scanner.py Scanner.run, lines 139-167 *)

\* what band_metrics returns for a capture, chosen by the environment:
\* p = band_power_db, s = snr (dB, integers)
Measurements == { [p |-> -90, s |-> 0], [p |-> -40, s |-> 20] }

NoMeasurement == [p |-> 0, s |-> 0]

\* ema = (1.0 - alpha) * ema + alpha * raw
EmaUpdate(alpha, ema, raw) ==
    RAdd(RMul(RSub(ROne, alpha), ema), RMul(alpha, RInt(raw)))

\* a variant of DequeAppend: nothing is dropped at the other end
DequeAppendUnbounded(win, v, maxlen) ==
    IF maxlen = 0 THEN <<>>
    ELSE Append(win, v)

\* deque(maxlen = maxlen).append(v)
DequeAppend(win, v, maxlen) ==
    IF maxlen = 0 THEN <<>>
    ELSE IF Len(win) >= maxlen THEN Append(Tail(win), v)
    ELSE Append(win, v)

\* hits = sum(1 for v in win if v)
Hits(win) == Cardinality({k \in DOMAIN win : win[k]})

\* a variant of Status: a channel is active only while it is a candidate
StatusOnlyWhileCandidate(hits, winlen, is_candidate, alert_hits, alert_window) ==
    IF is_candidate /\ hits >= alert_hits /\ winlen >= Min(alert_window, alert_hits)
    THEN "active"
    ELSE IF is_candidate THEN "new" ELSE "lost"

\* status = "active" if (...) else ("new" if is_candidate else "lost")
Status(hits, winlen, is_candidate, alert_hits, alert_window) ==
    IF hits >= alert_hits /\ winlen >= Min(alert_window, alert_hits)
    THEN "active"
    ELSE IF is_candidate THEN "new" ELSE "lost"

\* the Scanner after measuring m on channel freqs_hz[j]
Observe(sc, j, m) ==
    LET f       == sc.freqs_hz[j]
        ema_p   == EmaUpdate(sc.ema_alpha, sc.ema_power_dbm[f], m.p)
        ema_s   == EmaUpdate(sc.ema_alpha, sc.ema_snr_db[f], m.s)
        is_cand == RLe(RInt(sc.min_snr_db), ema_s)
        win     == DequeAppend(sc.activity_windows[f], is_cand, sc.alert_window)
    IN  [sc EXCEPT !.ema_power_dbm[f]    = ema_p,
                   !.ema_snr_db[f]       = ema_s,
                   !.activity_windows[f] = win,
                   !.i                   = j]

\* the status the iteration on channel f hands to upsert_candidate
ObservedStatus(sc, f) ==
    LET win == sc.activity_windows[f]
    IN  Status(Hits(win), Len(win),
               RLe(RInt(sc.min_snr_db), sc.ema_snr_db[f]),
               sc.alert_hits, sc.alert_window)

-----------------------------------------------------------------------------
(* The candidate store: storage.py upsert_candidate *)

EmptyTable == [f \in {} |-> 0]

\* a variant of Upsert: the row is replaced as a whole (INSERT OR REPLACE)
UpsertReplacing(table, f, power_dbm, snr_db, status, alpha, now_iso) ==
    LET row == [power_dbm  |-> power_dbm,
                snr_db     |-> snr_db,
                ema_power  |-> power_dbm,
                ema_snr    |-> snr_db,
                first_seen |-> now_iso,
                last_seen  |-> now_iso,
                hits       |-> IF RLe(RInt(0), snr_db) THEN 1 ELSE 0,
                status     |-> status]
    IN  [g \in DOMAIN table \cup {f} |-> IF g = f THEN row ELSE table[g]]

\* upsert_candidate(freq_hz, power_dbm, snr_db, status, ema_alpha) at wall
\* time now_iso.  first_seen and last_seen are UTC isoformat() strings of one
\* offset, whose order as strings is the order of the times: they are
\* modelled by the time in ms.  A stored first_seen is never empty, so
\* `row["first_seen"] if row["first_seen"] else now_iso` keeps it.
Upsert(table, f, power_dbm, snr_db, status, alpha, now_iso) ==
    LET hit == IF RLe(RInt(0), snr_db) THEN 1 ELSE 0
        row == IF f \notin DOMAIN table
               THEN [power_dbm  |-> power_dbm,
                     snr_db     |-> snr_db,
                     ema_power  |-> power_dbm,
                     ema_snr    |-> snr_db,
                     first_seen |-> now_iso,
                     last_seen  |-> now_iso,
                     hits       |-> hit,
                     status     |-> status]
               ELSE [power_dbm  |-> power_dbm,
                     snr_db     |-> snr_db,
                     ema_power  |-> RAdd(RMul(RSub(ROne, alpha), table[f].ema_power),
                                         RMul(alpha, power_dbm)),
                     ema_snr    |-> RAdd(RMul(RSub(ROne, alpha), table[f].ema_snr),
                                         RMul(alpha, snr_db)),
                     first_seen |-> table[f].first_seen,
                     last_seen  |-> now_iso,
                     hits       |-> table[f].hits + hit,
                     status     |-> status]
    IN  [g \in DOMAIN table \cup {f} |-> IF g = f THEN row ELSE table[g]]

\* the upsert_candidate call of the loop iteration on channel f
UpsertObserved(table, sc, f) ==
    Upsert(table, f,
           Round2(sc.ema_power_dbm[f]),
           Round2(sc.ema_snr_db[f]),
           ObservedStatus(sc, f),
           sc.ema_alpha,
           clock)

\* the stored frequencies by descending ema_snr (ORDER BY ema_snr DESC);
\* rows of equal ema_snr are taken in the order of the primary key
RECURSIVE OrderByEmaSnrDesc(_, _)
OrderByEmaSnrDesc(table, S) ==
    IF S = {} THEN <<>>
    ELSE LET f == CHOOSE x \in S : \A y \in S :
                      \/ RLt(table[y].ema_snr, table[x].ema_snr)
                      \/ (table[y].ema_snr = table[x].ema_snr /\ x <= y)
         IN  <<f>> \o OrderByEmaSnrDesc(table, S \ {f})

\* the frequencies of S in the order of the primary key
RECURSIVE OrderByKey(_)
OrderByKey(S) ==
    IF S = {} THEN <<>>
    ELSE LET f == CHOOSE x \in S : \A y \in S : x <= y
         IN  <<f>> \o OrderByKey(S \ {f})

\* a variant of ListTop: the query has no ORDER BY
ListTopUnordered(table, limit) ==
    LET all == OrderByKey(DOMAIN table)
        n   == IF limit < 0 THEN Len(all) ELSE Min(limit, Len(all))
    IN  [k \in 1..n |-> [freq_hz |-> all[k],
                         ema_snr |-> table[all[k]].ema_snr,
                         snr_db  |-> table[all[k]].snr_db,
                         hits    |-> table[all[k]].hits,
                         status  |-> table[all[k]].status]]

\* list_top_candidates(limit): ... ORDER BY ema_snr DESC LIMIT ? (a negative
\* LIMIT of SQLite is no limit)
ListTop(table, limit) ==
    LET all == OrderByEmaSnrDesc(table, DOMAIN table)
        n   == IF limit < 0 THEN Len(all) ELSE Min(limit, Len(all))
    IN  [k \in 1..n |-> [freq_hz |-> all[k],
                         ema_snr |-> table[all[k]].ema_snr,
                         snr_db  |-> table[all[k]].snr_db,
                         hits    |-> table[all[k]].hits,
                         status  |-> table[all[k]].status]]

-----------------------------------------------------------------------------
(* Steps and history *)

\* the record of a step: its name, what it did in order (ev), and for a loop
\* iteration the channel f, the measurement m and the status it upserted;
\* session, demod: on entry of the handler a focus session was active, the
\* demodulator handle was set; rows: the snapshot the step read from the
\* store, asked for with limit; since: for a step that broadcast a snapshot,
\* the time since the previous snapshot broadcast of the process (-1: none)
Step(name, ev) ==
    [name |-> name, ev |-> ev, f |-> 0, m |-> NoMeasurement, status |-> "",
     session |-> FALSE, demod |-> FALSE, rows |-> <<>>, limit |-> 0,
     since |-> -1, reads |-> <<>>]

\* per channel of the current Scanner: number of observations and the
\* smallest and largest raw SNR and raw power fed to its EMAs, and the
\* number of its latest observations in a row that were no candidate
NoFed == [n |-> 0, slo |-> 0, shi |-> 0, plo |-> 0, phi |-> 0, misses |-> 0]

FedAfter(fed, m) ==
    IF fed.n = 0
    THEN [n |-> 1, slo |-> m.s, shi |-> m.s, plo |-> m.p, phi |-> m.p,
          misses |-> fed.misses]
    ELSE [n   |-> fed.n + 1,
          slo |-> Min(fed.slo, m.s), shi |-> Max(fed.shi, m.s),
          plo |-> Min(fed.plo, m.p), phi |-> Max(fed.phi, m.p),
          misses |-> fed.misses]

NoSnap == [valid |-> FALSE, freqs |-> <<>>, touched |-> {}]

\* a configuration request is handled: when, relative to the focus session
\* of the snapshot
Touch(h, session_active) ==
    [h EXCEPT !.cfg_touched = TRUE,
              !.snap.touched = IF ~h.snap.valid THEN @
                               ELSE IF session_active THEN @ \cup {"during"}
                               ELSE @ \cup {"after"}]

\* fed:          see NoFed
\* snap:         the channel list of the scanner that the focus opening the
\*               session stopped, and when config requests were handled
\*               since that scanner was constructed: before the session,
\*               during it, after it
\* cfg_touched:  a config request was handled since the current Scanner was
\*               constructed
\* by_unfocus:   the current (or last) scanner task was created by DELETE /focus
\* session_scan: state.scanning when the current focus session began
\* last_bcast:   time of the last candidate-snapshot broadcast (-1: none)
\* live:         number of scanner tasks created and not yet ended
InitHist ==
    [fed          |-> [f \in {} |-> NoFed],
     snap         |-> NoSnap,
     cfg_touched  |-> FALSE,
     by_unfocus   |-> FALSE,
     session_scan |-> FALSE,
     last_bcast   |-> -1,
     live         |-> 0,
     demods       |-> 0]

-----------------------------------------------------------------------------
(* The control plane: api.py *)

FocusFreqs == {5658, 5806}

\* the request bodies PUT /config is tried with
PutConfigs ==
    { [bands |-> << [name |-> "B", channels |-> <<5695, 5732>>] >>,
       min_snr_db |-> 2,
       alert_persistence |-> [hits |-> 2, window |-> 3]] }

\* the outcome of the Popen chain of _start_demod: the first Popen succeeds
\* (the three fallbacks are the same call on another module), or all raise
SpawnOutcomes == {"app.demod_autotune", "none"}

\* the control-plane fields a handler works on, with its event log
Ctl ==
    [scanning                  |-> scanning,
     focused_freq_hz           |-> focused_freq_hz,
     stop_event                |-> stop_event,
     scanner_task              |-> scanner_task,
     demod_proc                |-> demod_proc,
     demod_alive               |-> demod_alive,
     was_scanning_before_focus |-> was_scanning_before_focus,
     config                    |-> config,
     ev                        |-> <<>>]

Log(st, e) == [st EXCEPT !.ev = Append(@, e)]

\* _broadcast(event) with no subscriber: `if not state.subscribers: return`
Broadcast(st, event) == st

\* a variant of CreateTask: the task is created whatever the previous one
CreateTaskAlways(st) ==
    Log([st EXCEPT !.scanner_task = "pending"],
        IF st.demod_proc = "none" THEN "create_task"
        ELSE "create_task_with_demod")

\* if state.scanner_task is None or state.scanner_task.done():
\*     state.scanner_task = asyncio.create_task(_scanner_loop(state))
\* the event tells whether the demodulator handle is set at that moment
CreateTask(st) ==
    IF st.scanner_task \in {"none", "done"}
    THEN Log([st EXCEPT !.scanner_task = "pending"],
             IF st.demod_proc = "none" THEN "create_task"
             ELSE "create_task_with_demod")
    ELSE st

\* _stop_demod(); exits: the process ends within the 3 s of wait(timeout=3)
StopDemod(st, exits) ==
    IF st.demod_proc = "none" THEN st
    ELSE LET s1 == Log(st, "terminate")
             s2 == IF st.demod_alive /\ ~exits
                   THEN Log(Log(s1, "wait_timeout"), "kill")
                   ELSE Log(s1, "wait_ok")
         IN  Log([s2 EXCEPT !.demod_proc = "none", !.demod_alive = FALSE],
                 "clear_handle")

\* a variant of StartDemod: the previous demodulator is left running and its
\* handle overwritten
StartDemodNoStop(st, exits, spawn) ==
    IF spawn = "none"
    THEN Log([st EXCEPT !.demod_proc = "none"], "spawn_failed")
    ELSE Log([st EXCEPT !.demod_proc = spawn, !.demod_alive = TRUE],
             IF st.scanner_task = "sleeping" THEN "spawn_scanner_in_loop"
             ELSE "spawn")

\* _start_demod(freq_hz); the event tells the state of the scanner task at
\* the moment of the Popen
StartDemod(st, exits, spawn) ==
    LET s1 == StopDemod(st, exits)
    IN  IF spawn = "none"
        THEN Log([s1 EXCEPT !.demod_proc = "none"], "spawn_failed")
        ELSE Log([s1 EXCEPT !.demod_proc = spawn, !.demod_alive = TRUE],
                 IF s1.scanner_task = "sleeping" THEN "spawn_scanner_in_loop"
                 ELSE "spawn")

\* POST /scan/start
ScanStartHandler(st) ==
    IF st.scanning THEN st
    ELSE LET s1 == Log([st EXCEPT !.scanning = TRUE, !.stop_event = FALSE],
                       "clear_stop")
         IN  Broadcast(CreateTask(s1), "scan_state")

\* POST /scan/stop
ScanStopHandler(st) ==
    Broadcast(Log([st EXCEPT !.scanning = FALSE, !.stop_event = TRUE],
                  "set_stop"), "scan_state")

\* POST /focus
FocusHandler(st, freq, exits, spawn) ==
    LET s1 == [st EXCEPT !.was_scanning_before_focus = st.scanning,
                         !.scanning = FALSE,
                         !.stop_event = TRUE,
                         !.focused_freq_hz = freq]
    IN  StartDemod(Broadcast(Broadcast(Log(s1, "set_stop"), "scan_state"),
                             "focus_state"),
                   exits, spawn)

\* the auto-resume of DELETE /focus
Resume(st) ==
    IF st.was_scanning_before_focus /\ ~st.scanning
    THEN LET s1 == Log([st EXCEPT !.was_scanning_before_focus = FALSE,
                                  !.stop_event = FALSE,
                                  !.scanning = TRUE],
                       "clear_stop")
         IN  Broadcast(CreateTask(s1), "scan_state")
    ELSE st

\* a variant of FocusStopHandler: the scanner is resumed, then the
\* demodulator stopped
FocusStopHandlerResumeFirst(st, exits) ==
    LET s1 == Broadcast([st EXCEPT !.focused_freq_hz = 0], "focus_state")
    IN  StopDemod(Resume(s1), exits)

\* DELETE /focus
FocusStopHandler(st, exits) ==
    LET s1 == Broadcast([st EXCEPT !.focused_freq_hz = 0], "focus_state")
    IN  Resume(StopDemod(s1, exits))

\* the handler's result becomes the control-plane state
Commit(st) ==
    /\ scanning' = st.scanning
    /\ focused_freq_hz' = st.focused_freq_hz
    /\ stop_event' = st.stop_event
    /\ scanner_task' = st.scanner_task
    /\ demod_proc' = st.demod_proc
    /\ demod_alive' = st.demod_alive
    /\ was_scanning_before_focus' = st.was_scanning_before_focus
    /\ config' = st.config

\* the demodulator subprocesses alive after a handler that found n of them,
\* the one behind the handle alive or not: terminate() or kill() ends the
\* one behind the handle, Popen adds one
DemodsAfter(n, alive, st) ==
    LET ended   == IF alive /\ \E k \in DOMAIN st.ev : st.ev[k] = "terminate"
                   THEN 1 ELSE 0
        spawned == IF \E k \in DOMAIN st.ev :
                         st.ev[k] \in {"spawn", "spawn_scanner_in_loop"}
                   THEN 1 ELSE 0
    IN  n - ended + spawned

\* the handler created a scanner task
Created(st) ==
    \E k \in DOMAIN st.ev : st.ev[k] \in {"create_task", "create_task_with_demod"}

scan_start ==
    LET st == ScanStartHandler(Ctl)
    IN  /\ Commit(st)
        /\ op' = Step("scan_start", st.ev)
        /\ hist' = IF Created(st)
                   THEN [hist EXCEPT !.by_unfocus = FALSE, !.live = @ + 1]
                   ELSE hist
        /\ UNCHANGED <<cfgfile, scanner, db, ncap, env, subscribers, queues, clock, tuner>>

scan_stop ==
    LET st == ScanStopHandler(Ctl)
    IN  /\ Commit(st)
        /\ op' = Step("scan_stop", st.ev)
        /\ UNCHANGED <<cfgfile, scanner, db, ncap, env, subscribers, queues, clock, tuner, hist>>

focus ==
    \E freq \in FocusFreqs, exits \in BOOLEAN, spawn \in SpawnOutcomes :
        LET st == FocusHandler(Ctl, freq, exits, spawn)
            opening == focused_freq_hz = 0
        IN  /\ (demod_proc = "none" \/ ~demod_alive) => exits
            /\ Commit(st)
            /\ op' = [Step("focus", st.ev) EXCEPT !.f = freq,
                                                   !.session = ~opening,
                                                   !.demod = demod_proc # "none"]
            /\ hist' = [(IF opening
                         THEN [hist EXCEPT
                                 !.session_scan = scanning,
                                 !.snap = IF scanning /\ scanner_task = "sleeping"
                                          THEN [valid   |-> TRUE,
                                                freqs   |-> scanner.freqs_hz,
                                                touched |-> IF hist.cfg_touched
                                                            THEN {"before"}
                                                            ELSE {}]
                                          ELSE NoSnap]
                         ELSE hist)
                        EXCEPT !.demods = DemodsAfter(@, demod_alive, st)]
            /\ UNCHANGED <<cfgfile, scanner, db, ncap, env, subscribers, queues, clock, tuner>>

focus_stop ==
    \E exits \in BOOLEAN :
        LET st == FocusStopHandler(Ctl, exits)
        IN  /\ (demod_proc = "none" \/ ~demod_alive) => exits
            /\ Commit(st)
            /\ op' = [Step("focus_stop", st.ev) EXCEPT
                        !.session = focused_freq_hz # 0,
                        !.demod = demod_proc # "none"]
            /\ hist' = [(IF Created(st)
                         THEN [hist EXCEPT !.by_unfocus = TRUE, !.live = @ + 1]
                         ELSE hist)
                        EXCEPT !.demods = DemodsAfter(@, demod_alive, st)]
            /\ UNCHANGED <<cfgfile, scanner, db, ncap, env, subscribers, queues, clock, tuner>>

\* PUT /config with a JSON object holding "bands"
PutConfigHandler(st, cfg) == Log([st EXCEPT !.config = cfg], "set_config")

\* GET /config
GetConfigHandler(st, file) == Log([st EXCEPT !.config = LoadConfig(file)], "load")

put_config ==
    \E cfg \in PutConfigs :
        LET st == PutConfigHandler(Ctl, cfg)
        IN  /\ Commit(st)
            /\ cfgfile' = File(cfg)
            /\ op' = Step("put_config", st.ev)
            /\ hist' = Touch(hist, focused_freq_hz # 0)
            /\ UNCHANGED <<scanner, db, ncap, env, subscribers, queues, clock, tuner>>

get_config ==
    LET st == GetConfigHandler(Ctl, cfgfile)
    IN  /\ Commit(st)
        /\ op' = Step("get_config", st.ev)
        /\ hist' = Touch(hist, focused_freq_hz # 0)
        /\ UNCHANGED <<cfgfile, scanner, db, ncap, env, subscribers, queues, clock, tuner>>

\* the demodulator process ends by itself (its handle stays in demod_proc)
demod_exit ==
    /\ demod_alive
    /\ demod_alive' = FALSE
    /\ op' = Step("demod_exit", <<>>)
    /\ hist' = [hist EXCEPT !.demods = @ - 1]
    /\ UNCHANGED <<scanning, focused_freq_hz, stop_event, scanner_task,
                   demod_proc, was_scanning_before_focus, config, cfgfile,
                   scanner, db, ncap, env, subscribers, queues, clock, tuner>>

-----------------------------------------------------------------------------
(* The scanner task: api.py _scanner_loop, scanner.py Scanner.run *)

\* the index of the channel the `for` loop turns to after channel i
\* (past the last channel the `while` loop starts the next sweep)
NextIndex(sc) == IF sc.i < Len(sc.freqs_hz) THEN sc.i + 1 ELSE 1

\* a variant of SeesStop: the signal is looked at between sweeps only
SeesStopBetweenSweeps(stop, i, n) == stop /\ (i = 0 \/ i = n)

\* the task, resumed after channel i of n, finds the stop signal: by
\* `while not stop_event.is_set()` when a sweep starts, by
\* `if stop_event.is_set(): break` (and then the `while`) inside a sweep
SeesStop(stop, i, n) == stop

\* a candidate snapshot is broadcast if 0.2 s have passed since last_push
PushPeriodMs == 200

\* list_top_candidates(10)
TopK == 10

\* readStream calls until a capture of the hardware sampler has
\* num_samples, when every call returns a full block
HwBlocks == 2

\* what a readStream call does: return ret > 0, return ret <= 0, or throw
ReadOutcomes == {"ok", "nonpos", "throws"}

\* what the driver does during one capture: fail names the call that throws
\* before the read loop ("setup": setSampleRate, setBandwidth or both
\* setupStream calls; "tune": setFrequency; "activate": activateStream), and
\* reads gives the outcomes of the first readStream calls in order; later
\* calls are "ok"
DriverScripts ==
    {[fail |-> x, reads |-> <<>>] : x \in {"setup", "tune", "activate"}}
    \cup {[fail |-> "none", reads |-> r] :
            r \in {<<>>} \cup {<<a>> : a \in ReadOutcomes}
                       \cup {<<a, b>> : a, b \in ReadOutcomes}}

Outcome(script) == IF script = <<>> THEN "ok" ELSE Head(script)

Rest(script) == IF script = <<>> THEN <<>> ELSE Tail(script)

\* the `while total < num_samples` loop of SoapyHackRFSampler.capture: every
\* iteration reads int16 first (use_i16 is assigned and never read); if that
\* read throws or returns no samples, the iteration reads int8, outside the
\* inner try.  log lists the reads made: format and outcome.
RECURSIVE ReadLoop(_, _, _)
ReadLoop(total, script, log) ==
    IF total >= HwBlocks THEN [raised |-> FALSE, reads |-> log]
    ELSE LET o16  == Outcome(script)
             log1 == Append(log, [fmt |-> "CS16", ret |-> o16])
         IN  IF o16 = "ok"
             THEN ReadLoop(total + 1, Rest(script), log1)
             ELSE LET o8   == Outcome(Rest(script))
                      log2 == Append(log1, [fmt |-> "CS8", ret |-> o8])
                  IN  IF o8 = "throws"
                      THEN [raised |-> TRUE, reads |-> log2]
                      ELSE ReadLoop(IF o8 = "ok" THEN total + 1 ELSE total,
                                    Rest(Rest(script)), log2)

\* SoapyHackRFSampler.capture: _ensure_stream, setFrequency and
\* activateStream are called outside any try, the read loop inside
\* try/finally without except
HwCapture(d) ==
    IF d.fail # "none" THEN [raised |-> TRUE, reads |-> <<>>]
    ELSE ReadLoop(0, d.reads, <<>>)

\* sampler.capture(f, ...) of Scanner.run: SyntheticSampler (env.hw empty)
\* returns a buffer; SoapyHackRFSampler does what the driver lets it do
Captures ==
    IF env.hw = {} THEN {[raised |-> FALSE, reads |-> <<>>]}
    ELSE {HwCapture(d) : d \in env.hw}

\* the task runs from its resumption to its next suspension or its end
RunStep(sc0, name, hist0) ==
    LET j == NextIndex(sc0)
        f == sc0.freqs_hz[j]
    IN  IF SeesStop(stop_event, sc0.i, Len(sc0.freqs_hz))
        THEN \* leave the loop; finally: stop_event.clear()
             /\ scanner' = sc0
             /\ scanner_task' = "done"
             /\ stop_event' = FALSE
             /\ op' = Step(name, <<"exit", "clear_stop">>)
             /\ hist' = [hist0 EXCEPT !.live = @ - 1]
             /\ UNCHANGED <<db, ncap>>
        ELSE /\ ncap < env.cap
             /\ ncap' = ncap + 1
             /\ \E m \in env.meas, c \in Captures :
                  IF c.raised
                  THEN \* the exception leaves run(); finally: stop_event.clear()
                       /\ scanner' = sc0
                       /\ scanner_task' = "done"
                       /\ stop_event' = FALSE
                       /\ op' = [Step(name, <<"capture_raised", "clear_stop">>)
                                   EXCEPT !.f = f, !.reads = c.reads]
                       /\ hist' = [hist0 EXCEPT !.live = @ - 1]
                       /\ UNCHANGED db
                  ELSE
                    LET sc1  == Observe(sc0, j, m)
                        db1  == UpsertObserved(db, sc1, f)
                        \* if now - last_push >= 0.2: broadcast the top 10
                        push == clock - sc1.last_push >= PushPeriodMs
                    IN  /\ scanner' = [sc1 EXCEPT
                                         !.last_push = IF push THEN clock ELSE @,
                                         !.wake_at = clock + Max(0, sc1.dwell_ms)]
                        /\ db' = db1
                        /\ op' = [Step(name,
                                       IF push
                                       THEN <<"capture", "upsert", "broadcast", "sleep">>
                                       ELSE <<"capture", "upsert", "sleep">>)
                                    EXCEPT !.f = f, !.m = m,
                                           !.status = ObservedStatus(sc1, f),
                                           !.rows = IF push THEN ListTop(db1, TopK)
                                                    ELSE <<>>,
                                           !.limit = TopK,
                                           !.since = IF push /\ hist0.last_bcast >= 0
                                                     THEN clock - hist0.last_bcast
                                                     ELSE -1,
                                           !.reads = c.reads]
                        /\ hist' = [hist0 EXCEPT
                                      !.fed[f] =
                                          [FedAfter(@, m) EXCEPT !.misses =
                                             IF RLe(RInt(sc1.min_snr_db),
                                                    sc1.ema_snr_db[f])
                                             THEN 0 ELSE @ + 1],
                                      !.last_bcast = IF push THEN clock ELSE @]
                        /\ scanner_task' = "sleeping"
                        /\ UNCHANGED stop_event

\* the task created by create_task starts: _scanner_loop builds the Scanner
\* from the configuration and enters run()
scanner_start ==
    /\ scanner_task = "pending"
    /\ LET cfg == EffectiveConfig(config, cfgfile)
           sc0 == ScannerFromConfig(cfg)
       IN  IF ConfigRaises(cfg)
           THEN \* the exception ends the task before a Scanner is built
                /\ scanner_task' = "done"
                /\ op' = Step("scanner_start", <<"config_raised">>)
                /\ hist' = [hist EXCEPT !.live = @ - 1]
                /\ UNCHANGED <<scanner, stop_event, db, ncap>>
           ELSE RunStep(sc0, "scanner_start",
                        [hist EXCEPT !.fed = [f \in Range(sc0.freqs_hz) |-> NoFed],
                                     !.cfg_touched = FALSE])
    /\ UNCHANGED <<scanning, focused_freq_hz, demod_proc, demod_alive,
                   was_scanning_before_focus, config, cfgfile, env, subscribers, queues, clock, tuner>>

\* the task returns from `await asyncio.sleep(...)`
scanner_wake ==
    /\ scanner_task = "sleeping"
    \* the sleep is over (the untimed specifications leave time out)
    /\ env.ticks = {} \/ clock >= scanner.wake_at
    /\ RunStep(scanner, "scanner_wake", hist)
    /\ UNCHANGED <<scanning, focused_freq_hz, demod_proc, demod_alive,
                   was_scanning_before_focus, config, cfgfile, env, subscribers, queues, clock, tuner>>

-----------------------------------------------------------------------------
(* The demodulator process: demod_autotune.py.  Frequencies are offsets from
   the frequency requested at spawn (base_freq), in kHz; sample rates in Hz *)

\* no frame published or assembled yet
NoFrame == [made |-> FALSE, path |-> "", width |-> 0, height |-> 0,
            bytes |-> 0, freq |-> 0, pad |-> 0, raised |-> FALSE, lo |-> 0]

\* the AFC round of the last tick of the main loop: q is the quality of
\* the tick's frame and probes the qualities measured at the offsets
NoAfc == [made |-> FALSE, q |-> 0, probes |-> <<>>]

\* the locals of auto_gain (RMS in units of 0.00001): phase is "idle" before
\* the call, "loop" at the top of an iteration and "done" after the return;
\* rms and clip are the last reading (clip: clip > max_clip); iter counts
\* the iterations begun; start is the RMS the signal shows at the gains
\* lna0, vga0; clipped: some reading showed clip; vga_before, saw_clip and
\* low: the VGA gain, clip > max_clip and err > 0 at the top of the last
\* iteration
NoAgc == [phase |-> "idle", rms |-> 0, clip |-> FALSE, iter |-> 0,
          start |-> 0, lna0 |-> 0, vga0 |-> 0, clipped |-> FALSE,
          vga_before |-> 0, saw_clip |-> FALSE, low |-> FALSE]

\* what read_samples_with_stats returned last: clips and raw are its two
\* counters (clip_frac = clips / max(1, raw)), total the samples returned;
\* vals16 and vals8 are the raw values the driver delivered in 16-bit and in
\* 8-bit reads
NoStats == [made |-> FALSE, clips |-> 0, raw |-> 0, total |-> 0,
            vals16 |-> <<>>, vals8 |-> <<>>, raised |-> FALSE]

\* HackRFStream.__init__ (gains, amplifier, format) and the locals of run();
\* lo is the frequency the device was last tuned to by
\* set_center_frequency, less freq_hz, in kHz as tuned is;
\* call names the last method of the stream called on its own and the
\* settings ("AMP", "LNA", "VGA") device.setGain rejected in it; phase is
\* "spawned" before the stream is constructed, "start" before initial_lock,
\* "tracking" at the top of the main loop, "reading" in its read_samples,
\* "have_iq" after it, "synthetic" at the top of the fallback loop, "drawing"
\* in its body, "crashed" once an exception has left run() and "returned"
\* once run() has returned; tuned is tuned_f - freq_hz; est is the last
\* result of estimate_line_len; stop is the flag the signal handler sets;
\* opened: setupStream has succeeded; closes: the driver calls close() made;
\* pub: the publisher socket; frame: the last frame published (or assembled
\* by frame_from_raster on its own); after_stop: frames published since
\* stop was set; total: blocks read by the read_samples in progress; dead:
\* the driver returns a non-positive count on every read from now on
NewTuner(ready, sr, prefer_ntsc) ==
    [ready       |-> ready,
     format      |-> "CS16",
     lna_gain    |-> 28,
     vga_gain    |-> 16,
     sample_rate |-> sr,
     prefer_ntsc |-> prefer_ntsc,
     phase       |-> "start",
     tuned       |-> 0,
     line_len    |-> 0,
     est         |-> [raised |-> FALSE, len |-> 0, conf |-> 0, n |-> 0,
                      prefer |-> "none", made |-> FALSE],
     height      |-> 240,
     fps         |-> 10,
     samples_per_iter |-> 0,
     steps       |-> 0,
     use_hw      |-> TRUE,
     width       |-> 320,
     stop        |-> FALSE,
     opened      |-> ready,
     closes      |-> <<>>,
     pub         |-> "bound",
     frame       |-> NoFrame,
     after_stop  |-> 0,
     total       |-> 0,
     dead        |-> FALSE,
     cause       |-> "none",
     agc         |-> NoAgc,
     amp_enabled |-> TRUE,
     lo          |-> 0,
     afc         |-> NoAfc,
     stats       |-> NoStats,
     call        |-> [name |-> "none", rejected |-> {}]]

\* no demodulator process is modelled
NoTuner == [NewTuner(FALSE, 0, FALSE) EXCEPT !.phase = "off"]

\* the nominal line rates (Hz): 15734.0 if prefer_ntsc else 15625.0
LineRateNTSC == 15734

LineRatePAL == 15625

\* min_len = int(sample_rate_hz / (lr_nom * 1.15))
MinLen(sr, lr) == (sr * 20) \div (lr * 23)

\* max_len = int(sample_rate_hz / (lr_nom * 0.85))
MaxLen(sr, lr) == (sr * 20) \div (lr * 17)

\* a variant of Peak: the lags are neither masked nor clamped, and the
\* largest autocorrelation is the one of lag 0
PeakNoWindow(n, sr, lr, pk) ==
    IF n < 4096 THEN [raised |-> FALSE, len |-> sr \div lr, conf |-> 0]
    ELSE [raised |-> FALSE, len |-> 0, conf |-> pk.conf]

\* _peak(lr_nom) of estimate_line_len on an envelope of n samples.  The
\* autocorrelation r has n entries; those below min_len and from max_len on
\* are set to -inf, so argmax lies in the window min_len .. min(max_len, n) - 1
\* (pk.pos: where in the window; pk.conf: the confidence found).  When the
\* window is empty, argmax is 0, the clamp gives min_len >= n, and
\* nb[lag - left] on the empty neighbourhood raises IndexError.
Peak(n, sr, lr, pk) ==
    IF n < 4096 THEN [raised |-> FALSE, len |-> sr \div lr, conf |-> 0]
    ELSE LET min_len == MinLen(sr, lr)
             max_len == MaxLen(sr, lr)
             top     == Min(max_len, n)
         IN  IF min_len >= top
             THEN [raised |-> TRUE, len |-> 0, conf |-> 0]
             ELSE LET argmax == IF pk.pos = "first" THEN min_len ELSE top - 1
                      lag    == Max(min_len, Min(max_len, argmax))
                  IN  [raised |-> FALSE, len |-> lag, conf |-> pk.conf]

\* estimate_line_len(envelope, sample_rate_hz, prefer_ntsc) for an envelope
\* of n samples; prefer is "ntsc" (True), "pal" (False) or "none" (None);
\* pkn, pkp: the peaks of the NTSC and of the PAL search
EstimateLineLen(n, sr, prefer, pkn, pkp) ==
    LET en == Peak(n, sr, LineRateNTSC, pkn)
        ep == Peak(n, sr, LineRatePAL, pkp)
        e  == IF prefer = "ntsc" THEN en
              ELSE IF prefer = "pal" THEN ep
              ELSE IF en.raised THEN en
              ELSE IF ep.raised THEN ep
              \* cand.sort(key = conf, reverse = True) is stable
              ELSE IF ep.conf > en.conf THEN ep ELSE en
    IN  [raised |-> e.raised, len |-> e.len, conf |-> e.conf, n |-> n,
         prefer |-> prefer, made |-> TRUE]

\* the environment of the controller: where in the window the
\* autocorrelation peaks and with which confidence (0: none, 1: some)
Peaks == [pos : {"first", "last"}, conf : {0, 1}]

\* the envelope lengths estimate_line_len is applied to
EnvLens == {100, 4095, 4096, 65535}

PreferOf(prefer_ntsc) == IF prefer_ntsc THEN "ntsc" ELSE "pal"

\* the offsets (kHz) initial_lock probes: range(-2_000_000, 2_000_001, 250_000),
\* range(-5_000_000, 5_000_001, 500_000), range(-100_000, 100_001, 10_000)
CoarseOffsets == {250 * k : k \in -8..8}

WideOffsets == {500 * k : k \in -10..10}

FineOffsets == {10 * k : k \in -10..10}

\* the offsets (kHz) of the AFC probes; 0 is never committed
AfcDeltas == {-50, -25, 0, 25, 50}

\* the frame qualities the environment yields, in 1/100
Qualities == {2, 50}

\* a search loop none of whose probes is better than best_q (the quality
\* lies in [-1, 1])
NoBetter == [off |-> 0, q |-> -101]

\* where the signal lies among the offsets of a search loop (env.sig): at
\* the lowest, at the highest, or at the centre
SignalAt == {"lowest", "centre", "highest"}

\* the best probe of a search loop
Winners(offsets) ==
    {[off |-> o, q |-> q] :
        o \in {x \in offsets :
                 \/ "lowest" \in env.sig /\ \A y \in offsets : x <= y
                 \/ "highest" \in env.sig /\ \A y \in offsets : x >= y
                 \/ "centre" \in env.sig /\ x = 0},
        q \in Qualities}

\* the envelope initial_lock hands to the estimator:
\* max(65536, int(sample_rate_hz * 0.03)) samples, less one by the
\* discriminator
LockEnvLen(sr) == Max(65536, (sr * 3) \div 100) - 1

\* initial_lock(stream, center, ...): coarse, wide, fine are the best probes
\* of the three loops (qualities in 1/100); the result is best_f and best_q
InitialLock(center, coarse, wide, fine) ==
    LET b1 == [f |-> center + coarse.off, q |-> coarse.q]
        \* if best_q < 0.05: widen, around the same centre
        b2 == IF b1.q < 5 /\ wide.q > b1.q
              THEN [f |-> center + wide.off, q |-> wide.q]
              ELSE b1
        \* refine around the best
        b3 == IF fine.q > b2.q
              THEN [f |-> b2.f + fine.off, q |-> fine.q]
              ELSE b2
    IN  b3

\* the offsets of the AFC probes in the order they are made
AfcOrder == <<-50, -25, 0, 25, 50>>

\* a variant of Afc: a probe is taken as soon as it is better at all
RECURSIVE AfcNoMargin(_, _, _, _)
AfcNoMargin(i, probes, best_q_local, best_df) ==
    IF i > Len(AfcOrder) THEN best_df
    ELSE LET df == AfcOrder[i]
         IN  IF df # 0 /\ probes[df] > best_q_local
             THEN AfcNoMargin(i + 1, probes, probes[df], df)
             ELSE AfcNoMargin(i + 1, probes, best_q_local, best_df)

\* the loop `for df in deltas` of the AFC from its i-th delta on, the
\* qualities in 1/100: a probe is taken if q_s > best_q_local + 0.02;
\* yields best_df
RECURSIVE Afc(_, _, _, _)
Afc(i, probes, best_q_local, best_df) ==
    IF i > Len(AfcOrder) THEN best_df
    ELSE LET df == AfcOrder[i]
         IN  IF df # 0 /\ probes[df] > best_q_local + 2
             THEN Afc(i + 1, probes, probes[df], df)
             ELSE Afc(i + 1, probes, best_q_local, best_df)

\* the qualities the four probes measure around a frame of quality q:
\* with the signal at the lowest or the highest offset that probe alone is
\* better, with the signal at the centre none is, and with "any" each probe
\* measures q, q + 0.02 or q + 0.03
AfcProbes(q) ==
    LET only(o) == [df \in AfcDeltas \ {0} |-> IF df = o THEN q + 3 ELSE q]
    IN  {only(-50) : x \in env.sig \cap {"lowest"}}
        \cup {only(50) : x \in env.sig \cap {"highest"}}
        \cup {only(0) : x \in env.sig \cap {"centre"}}
        \cup (IF "any" \in env.sig
              THEN [AfcDeltas \ {0} -> {q, q + 2, q + 3}]
              ELSE {})

\* the quality of the frame of a tick
TickQualities == IF "any" \in env.sig THEN Qualities ELSE {50}

\* the AFC rounds the environment yields
AfcRounds ==
    UNION {{[made |-> TRUE, q |-> q, probes |-> pr] : pr \in AfcProbes(q)} :
              q \in TickQualities}

\* the frequencies initial_lock can return when started on center
LockTargets(center) ==
    {InitialLock(center, coarse, wide, fine).f :
        coarse \in Winners(CoarseOffsets),
        wide \in Winners(WideOffsets) \cup {NoBetter},
        fine \in Winners(FineOffsets) \cup {NoBetter}}

\* everything but the demodulator process
appvars == <<scanning, focused_freq_hz, stop_event, scanner_task, demod_proc,
             demod_alive, was_scanning_before_focus, config, cfgfile, scanner,
             db, ncap, env, subscribers, queues, clock, op, hist>>

\* what HackRFStream.__init__ meets: SoapySDR cannot be imported, Device()
\* throws, setSampleRate or setBandwidth throws, both setupStream calls
\* throw, activateStream throws, setupStream throws for CS16 only, or
\* nothing throws
InitOutcomes == {"no_soapy", "device_throws", "rate_throws", "setup_throws",
                 "activate_throws", "cs8", "ok"}

\* HackRFStream.close(): deactivateStream and closeStream if device and
\* stream are set (an exception of either is passed over); finally both
\* are set to None
StreamClose(t, has_stream) ==
    [t EXCEPT !.ready = FALSE,
              !.closes = IF has_stream
                         THEN @ \o <<"deactivateStream", "closeStream">>
                         ELSE @]

\* a variant of StreamInit: an exception of the driver leaves the constructor
StreamInitUnguarded(t, d) ==
    IF d \in {"ok", "cs8"}
    THEN [t EXCEPT !.ready = TRUE, !.opened = TRUE,
                   !.format = IF d = "cs8" THEN "CS8" ELSE "CS16"]
    ELSE [t EXCEPT !.ready = FALSE, !.cause = "init"]

\* HackRFStream.__init__ under outcome d; cause "init" would be an exception
\* leaving the constructor
StreamInit(t, d) ==
    IF d \in {"no_soapy", "device_throws"}
    THEN [t EXCEPT !.ready = FALSE, !.opened = FALSE]
    ELSE IF d \in {"rate_throws", "setup_throws"}
    THEN [StreamClose(t, FALSE) EXCEPT
            !.opened = FALSE,
            !.format = IF d = "setup_throws" THEN "CS8" ELSE @]
    ELSE IF d = "activate_throws"
    THEN [StreamClose(t, TRUE) EXCEPT !.opened = TRUE]
    ELSE [t EXCEPT !.ready = TRUE, !.opened = TRUE,
                   !.format = IF d = "cs8" THEN "CS8" ELSE "CS16"]

\* a variant of Finally: the publisher is closed, the stream is not
FinallyPubOnly(t) == [t EXCEPT !.pub = "closed"]

\* the finally clause of run(): stream.close() if a stream object was
\* built, then pub.close(0)
Finally(t) ==
    [(IF t.use_hw THEN StreamClose(t, t.ready) ELSE t) EXCEPT !.pub = "closed"]

\* an exception leaves run() through its finally clause
Crash(t, cause) == [Finally(t) EXCEPT !.phase = "crashed", !.cause = cause]

\* the condition of `while not stop`
Running(stop) == ~stop

\* a variant of FrameFromRaster: the lines are returned without resampling
\* to width columns
FrameFromRasterUnsampled(n, line_len, width, height) ==
    [NoFrame EXCEPT !.made = TRUE, !.width = width, !.height = height,
                    !.bytes = height * line_len]

\* frame_from_raster(env, line_len, width, height) on an envelope of n
\* samples, as to sizes: the envelope is edge-padded on the left up to
\* line_len * height (np.pad raises on an empty one), its last
\* line_len * height samples (all of it when that is 0) are reshaped to
\* (height, line_len), which raises if the sizes differ, and width columns
\* are picked: the image is height x width bytes
FrameFromRaster(n, line_len, width, height) ==
    LET needed == line_len * height
        pad    == IF n < needed THEN needed - n ELSE 0
        buf    == IF needed = 0 THEN n + pad ELSE needed
        raised == \/ pad > 0 /\ n = 0
                  \/ buf # height * line_len
                  \/ width > 0 /\ height > 0 /\ line_len = 0
                  \/ width < 0
    IN  IF raised THEN [NoFrame EXCEPT !.made = TRUE, !.raised = TRUE]
        ELSE [NoFrame EXCEPT !.made = TRUE, !.width = width,
                             !.height = height, !.pad = pad,
                             !.bytes = height * width]

\* pub.send_multipart: returns, or raises where the environment has the
\* transport fail
SendOutcomes == IF env.sendfail THEN {"sent", "raises"} ELSE {"sent"}

\* the frame is published: frames published once the stop flag is set are
\* counted
Publish(t, frame) ==
    [t EXCEPT !.frame = frame,
              !.after_stop = IF t.stop THEN @ + 1 ELSE @]

\* HackRFStream(sample_rate_hz) if use_hw else None, and the choice of the
\* path: `if stream is not None and stream.is_ready()`
controller_start ==
    /\ tuner.phase = "spawned"
    /\ \E d \in env.init :
          LET t1 == IF tuner.use_hw THEN StreamInit(tuner, d) ELSE tuner
          IN  tuner' = IF t1.cause = "init"
                       THEN [t1 EXCEPT !.phase = "crashed"]
                       ELSE [t1 EXCEPT !.phase = IF t1.ready THEN "start"
                                                ELSE "synthetic"]
    /\ UNCHANGED appvars

\* SIGINT or SIGTERM is delivered: the handler sets stop
sigterm ==
    /\ tuner.phase \in {"spawned", "start", "tracking", "reading", "have_iq",
                        "synthetic", "drawing"}
    /\ ~tuner.stop
    /\ tuner' = [tuner EXCEPT !.stop = TRUE]
    /\ UNCHANGED appvars

\* the device stops delivering samples
driver_dies ==
    /\ tuner.phase \in {"tracking", "reading"}
    /\ ~tuner.dead
    /\ tuner' = [tuner EXCEPT !.dead = TRUE]
    /\ UNCHANGED appvars

\* `while not stop` finds the flag clear and the body starts: on the
\* hardware path with read_samples(samples_per_iter)
begin_iter ==
    /\ env.rd
    /\ tuner.phase \in {"tracking", "synthetic"}
    /\ Running(tuner.stop)
    /\ tuner.phase = "tracking" => tuner.steps < env.cap
    /\ tuner' = [tuner EXCEPT !.phase = IF @ = "tracking" THEN "reading"
                                        ELSE "drawing",
                              !.total = 0]
    /\ UNCHANGED appvars

\* blocks of 4096 samples a read_samples call of the main loop needs
ReadBlocks == 2

\* one iteration of `while total < num_samples` of
\* HackRFStream.read_samples: a CS16 read that returns no samples sets the
\* format to CS8 and an int8 read follows; a read that throws ends the call
\* with zeros; o16 and o8 are what the driver does
read_step ==
    /\ tuner.phase = "reading"
    /\ \E o16 \in (IF tuner.dead THEN {"nonpos"} ELSE ReadOutcomes),
          o8 \in (IF tuner.dead THEN {"nonpos"} ELSE ReadOutcomes) :
          LET first == IF tuner.format = "CS16" THEN o16 ELSE o8
              fmt   == IF tuner.format = "CS16" /\ o16 = "nonpos" THEN "CS8"
                       ELSE tuner.format
              last  == IF tuner.format = "CS16" /\ o16 = "nonpos" THEN o8
                       ELSE first
              tot   == IF last = "ok" THEN tuner.total + 1 ELSE tuner.total
          IN  tuner' = [tuner EXCEPT
                          !.format = fmt,
                          !.total = tot,
                          !.phase = IF last = "throws" \/ tot >= ReadBlocks
                                    THEN "have_iq" ELSE "reading"]
    /\ UNCHANGED appvars

\* the loop is left on the stop flag, and run() returns through finally
leave ==
    /\ tuner.phase \in {"tracking", "synthetic"}
    /\ ~Running(tuner.stop)
    /\ tuner' = [Finally(tuner) EXCEPT !.phase = "returned", !.cause = "stop"]
    /\ UNCHANGED appvars

\* the body of the fallback loop: a height x width image is published with
\* the requested frequency
synth_frame ==
    /\ tuner.phase = "drawing"
    /\ \E sent \in SendOutcomes :
          tuner' = IF sent = "raises" THEN Crash(tuner, "send")
                   ELSE [Publish(tuner,
                                 [NoFrame EXCEPT !.made = TRUE,
                                                 !.path = "synthetic",
                                                 !.width = tuner.width,
                                                 !.height = tuner.height,
                                                 !.bytes = tuner.height * tuner.width])
                           EXCEPT !.phase = "synthetic"]
    /\ UNCHANGED appvars

\* frame_from_raster applied on its own to envelopes of several lengths
RasterEnvLens == {1, 1000, 65535}

raster ==
    /\ tuner.phase = "spawned"
    /\ \E n \in RasterEnvLens, lr \in {LineRateNTSC, LineRatePAL},
          len \in {"min", "max"} :
          LET sr == tuner.sample_rate
              line_len == IF len = "min" THEN MinLen(sr, lr) ELSE MaxLen(sr, lr)
          IN  tuner' = [tuner EXCEPT
                          !.frame = [FrameFromRaster(n, line_len, tuner.width,
                                                     tuner.height)
                                       EXCEPT !.path = "raster"]]
    /\ UNCHANGED appvars

\* run(): initial_lock on the requested frequency, then the main loop is
\* entered with samples_per_iter = max(line_len * height * 2,
\* int(sample_rate_hz / max(5, fps)))
initial_lock ==
    /\ tuner.phase = "start"
    /\ tuner.ready
    /\ ~tuner.dead
    /\ \E best_f \in LockTargets(0), pk \in Peaks :
          LET e    == EstimateLineLen(LockEnvLen(tuner.sample_rate),
                                      tuner.sample_rate,
                                      PreferOf(tuner.prefer_ntsc), pk, pk)
          IN  tuner' = IF e.raised THEN Crash(tuner, "initial_lock")
                       ELSE [tuner EXCEPT
                               !.phase = "tracking",
                               !.tuned = best_f,
                               !.lo = best_f,
                               !.line_len = e.len,
                               !.samples_per_iter =
                                   Max(e.len * tuner.height * 2,
                                       tuner.sample_rate \div Max(5, tuner.fps))]
    /\ UNCHANGED appvars

\* one iteration of the main loop of run(), after its gain check and, where
\* the reads are modelled read by read (env.rd), after its read_samples: the
\* line length is estimated again if more than 1 s has passed since the last
\* re-lock (reest); the frame is assembled; then the adaptive re-lock,
\* around the current tuned_f, if the quality collapsed (relock), or else
\* the AFC, which tunes the device to each probe in turn, commits best_df
\* if it is not 0 and only then tunes the device back; then the frame, made
\* of the samples read at the start of the iteration, is published with
\* tuned_f
track ==
    /\ IF env.rd THEN tuner.phase = "have_iq"
       ELSE tuner.phase = "tracking" /\ Running(tuner.stop)
    /\ tuner.steps < env.cap
    /\ ~tuner.dead
    /\ \E reest \in BOOLEAN, pk \in Peaks, sent \in SendOutcomes,
          move \in {[relock |-> TRUE, f |-> f, lo |-> f, afc |-> NoAfc] :
                          f \in LockTargets(tuner.tuned)}
                 \cup {LET df == Afc(1, a.probes, a.q, 0)
                       IN  [relock |-> FALSE,
                            f      |-> tuner.tuned + df,
                            lo     |-> IF df # 0 THEN tuner.tuned + df
                                       ELSE tuner.tuned + AfcOrder[Len(AfcOrder)],
                            afc    |-> a] : a \in AfcRounds} :
          LET sr   == tuner.sample_rate
              pref == PreferOf(tuner.prefer_ntsc)
              e1   == EstimateLineLen(tuner.samples_per_iter - 1, sr, pref, pk, pk)
              e2   == EstimateLineLen(LockEnvLen(sr), sr, pref, pk, pk)
              t1   == [tuner EXCEPT !.steps = @ + 1,
                                    !.phase = "tracking",
                                    !.lo = move.lo,
                                    !.afc = move.afc,
                                    !.line_len = IF reest THEN e1.len ELSE @]
              fr   == FrameFromRaster(tuner.samples_per_iter - 1, t1.line_len,
                                      tuner.width, tuner.height)
              t2   == IF move.relock
                      THEN [t1 EXCEPT !.tuned = move.f, !.line_len = e2.len]
                      ELSE [t1 EXCEPT !.tuned = move.f]
          IN  tuner' =
                IF (reest /\ e1.raised) \/ (move.relock /\ e2.raised)
                THEN Crash(tuner, "estimate_line_len")
                ELSE IF fr.raised THEN Crash(tuner, "frame_from_raster")
                ELSE IF sent = "raises" THEN Crash(tuner, "send")
                ELSE Publish(t2, [fr EXCEPT !.path = "hw", !.freq = t2.tuned,
                                            !.lo = tuner.lo])
    /\ UNCHANGED appvars

\* estimate_line_len applied to an envelope of any length
estimate ==
    /\ \E n \in EnvLens, prefer \in {"ntsc", "pal", "none"},
          pkn \in Peaks, pkp \in Peaks :
          tuner' = [tuner EXCEPT
                      !.est = EstimateLineLen(n, tuner.sample_rate, prefer, pkn, pkp)]
    /\ UNCHANGED appvars

\* a variant of SetGains: the gains are set as given
SetGainsUnclamped(t, amp, lna, vga, rej) ==
    IF ~t.ready THEN t
    ELSE [t EXCEPT !.amp_enabled = IF amp = <<>> \/ "AMP" \in rej THEN @ ELSE amp[1],
                   !.lna_gain = IF lna = <<>> THEN @ ELSE lna[1],
                   !.vga_gain = IF vga = <<>> THEN @ ELSE vga[1]]

\* HackRFStream.set_gains(lna=..., vga=..., amp=...); an argument is <<>> for
\* None and <<v>> for the value v; rej holds the settings for which
\* device.setGain throws.  amp_enabled is assigned after device.setGain has
\* returned; lna_gain and vga_gain are assigned before device.setGain is
\* called, so they are set whether or not the driver throws.
SetGains(t, amp, lna, vga, rej) ==
    IF ~t.ready THEN t
    ELSE [t EXCEPT !.amp_enabled = IF amp = <<>> \/ "AMP" \in rej THEN @ ELSE amp[1],
                   !.lna_gain = IF lna = <<>> THEN @ ELSE Max(0, Min(40, lna[1])),
                   !.vga_gain = IF vga = <<>> THEN @ ELSE Max(0, Min(62, vga[1]))]

\* what the reads of one auto_gain call show: clip > max_clip (clip),
\* abs(err) < 0.03 (near), err > 0 (low), and the RMS still off by more than
\* 20 % after the VGA step (far)
Readings == [clip : BOOLEAN, near : BOOLEAN, low : BOOLEAN, far : BOOLEAN]

\* the body of `for _ in range(8)` of auto_gain
AutoGainIter(t, r) ==
    LET t1   == IF r.clip
                THEN SetGains(t, <<>>, <<>>, <<Max(0, t.vga_gain - 6)>>, {})
                ELSE t
        step == IF r.low THEN 6 ELSE -6
        t2   == SetGains(t1, <<>>, <<>>,
                         <<Min(62, Max(0, t1.vga_gain + step))>>, {})
    IN  IF r.far
        THEN SetGains(t2, <<>>, <<Min(40, Max(0, t2.lna_gain + step))>>,
                      <<>>, {})
        ELSE t2

\* auto_gain(stream) with k iterations left, the reads showing r throughout
RECURSIVE AutoGainLoop(_, _, _)
AutoGainLoop(t, r, k) ==
    IF k = 0 THEN t
    ELSE IF ~r.clip /\ r.near THEN t
    ELSE AutoGainLoop(AutoGainIter(t, r), r, k - 1)

AutoGain(t, r) == IF ~t.ready THEN t ELSE AutoGainLoop(t, r, 8)

\* the RMS x after k gain steps of 2 dB each (a factor of 10^(2/20) = 1.2589
\* up, its inverse down), the samples saturating at full scale
RECURSIVE Scale(_, _)
Scale(x, k) ==
    IF k = 0 THEN x
    ELSE IF k > 0 THEN Scale(Min(100000, (x * 12589) \div 10000), k - 1)
    ELSE Scale((x * 10000) \div 12589, k + 1)

\* the RMS read_samples_with_stats measures at the gains of t: every dB of
\* LNA or VGA gain is a dB of RMS
RmsAt(t) ==
    Scale(t.agc.start,
          ((t.lna_gain - t.agc.lna0) + (t.vga_gain - t.agc.vga0)) \div 2)

\* what an iteration of auto_gain sees: clip > max_clip, abs(err) < 0.03 and
\* err > 0 from the reading it starts with, and the test of the LNA branch
\* from the reading rms2 made after the VGA step
ReadingsAt(rms, clip, rms2) ==
    LET err == 25000 - rms
    IN  [clip |-> clip,
         near |-> Abs(err) < 3000,
         low  |-> err > 0,
         far  |-> \/ err > 0 /\ rms2 < 20000
                  \/ err < 0 /\ rms2 > 30000]

\* auto_gain up to its loop: the return when the stream is not ready, else
\* the probing read
agc_probe ==
    /\ tuner.agc.phase = "idle"
    /\ \E clip \in BOOLEAN :
          tuner' = IF ~tuner.ready
                   THEN [tuner EXCEPT !.agc.phase = "done"]
                   ELSE [tuner EXCEPT !.agc.phase = "loop",
                                      !.agc.rms = RmsAt(tuner),
                                      !.agc.clip = clip,
                                      !.agc.clipped = clip]
    /\ UNCHANGED appvars

\* one iteration of `for _ in range(8)` that does not break
agc_iter ==
    /\ tuner.agc.phase = "loop"
    /\ tuner.agc.iter < 8
    /\ LET a   == tuner.agc
           r0  == ReadingsAt(a.rms, a.clip, 0)
           t2  == AutoGainIter(tuner, [r0 EXCEPT !.far = FALSE])
           r   == ReadingsAt(a.rms, a.clip, RmsAt(t2))
           t3  == AutoGainIter(tuner, r)
       IN  /\ r.clip \/ ~r.near
           /\ \E clip \in BOOLEAN :
                 tuner' = [t3 EXCEPT !.agc.iter = @ + 1,
                                     !.agc.vga_before = tuner.vga_gain,
                                     !.agc.saw_clip = a.clip,
                                     !.agc.low = r.low,
                                     !.agc.rms = RmsAt(t3),
                                     !.agc.clip = clip,
                                     !.agc.clipped = @ \/ clip]
    /\ UNCHANGED appvars

\* the loop ends: the break on abs(err) < 0.03 without clip, or the eighth
\* iteration done
agc_exit ==
    /\ tuner.agc.phase = "loop"
    /\ \/ tuner.agc.iter = 8
       \/ ~tuner.agc.clip /\ Abs(25000 - tuner.agc.rms) < 3000
    /\ tuner' = [tuner EXCEPT !.agc.phase = "done"]
    /\ UNCHANGED appvars

\* the arguments set_gains is called with
GainArgs == {<<>>, <<-7>>, <<0>>, <<13>>, <<41>>, <<63>>, <<100>>}

\* the number of values v of the sequence with v >= hi or v <= -hi
RECURSIVE CountRails(_, _)
CountRails(vals, hi) ==
    IF vals = <<>> THEN 0
    ELSE (IF vals[1] >= hi \/ vals[1] <= -hi THEN 1 ELSE 0)
         + CountRails(Tail(vals), hi)

\* the loop of read_samples_with_stats over the results of the driver reads
\* it makes, st holding the format and the counters: a read that delivers
\* values counts those at the rails (32760 for int16, 127 for int8), a
\* 16-bit read that returns a non-positive count switches to CS8, an
\* exception ends the call with (zeros, 0.0, 0.0)
RECURSIVE StatsLoop(_, _)
StatsLoop(st, script) ==
    IF script = <<>> THEN st
    ELSE LET e == Head(script)
         IN  IF e.k = "raises"
             THEN [st EXCEPT !.clips = 0, !.raw = 0, !.raised = TRUE]
             ELSE IF e.k = "nonpos"
             THEN StatsLoop([st EXCEPT !.format = "CS8"], Tail(script))
             ELSE IF st.format = "CS16"
             THEN StatsLoop([st EXCEPT
                               !.clips = @ + CountRails(e.v, 32760),
                               !.raw = @ + Len(e.v),
                               !.total = @ + Len(e.v) \div 2,
                               !.vals16 = @ \o e.v], Tail(script))
             ELSE StatsLoop([st EXCEPT
                               !.clips = @ + CountRails(e.v, 127),
                               !.raw = @ + Len(e.v),
                               !.total = @ + Len(e.v) \div 2,
                               !.vals8 = @ \o e.v], Tail(script))

\* raw int16 and int8 values at and next to the rails
Raw16 == {0, 32759, 32760, 32767, -32760, -32768}

Raw8 == {0, 126, 127, -127, -128}

\* a read that delivers one I/Q pair, one that returns a non-positive
\* count, one that throws
Pairs(vals) == {[k |-> "ok", v |-> <<i, q>>] : i \in vals, q \in vals}

NonPos == [k |-> "nonpos", v |-> <<>>]

Raises == [k |-> "raises", v |-> <<>>]

\* what the driver does over one call that starts in the given format: the
\* values come in the format of the read that asked for them
StatScripts(format) ==
    IF format = "CS8"
    THEN {<<b>> : b \in Pairs(Raw8)} \cup {<<b, Raises>> : b \in Pairs(Raw8)}
    ELSE {<<a>> : a \in Pairs(Raw16)}
         \cup {<<a, Raises>> : a \in Pairs(Raw16)}
         \cup {<<NonPos, b>> : b \in Pairs(Raw8)}
         \cup {<<a, NonPos, b>> : a \in Pairs(Raw16), b \in Pairs(Raw8)}

\* HackRFStream.read_samples_with_stats(n): zeros, 0.0, 0.0 when the stream
\* is not ready
read_samples_with_stats ==
    /\ \E script \in StatScripts(tuner.format) :
          LET st == StatsLoop([NoStats EXCEPT !.made = TRUE]
                                @@ [format |-> tuner.format], script)
          IN  tuner' =
                IF ~tuner.ready
                THEN [tuner EXCEPT !.stats = [NoStats EXCEPT !.made = TRUE],
                                   !.call = [name |-> "read_samples_with_stats",
                                             rejected |-> {}]]
                ELSE [tuner EXCEPT
                        !.format = st.format,
                        !.stats = [f \in DOMAIN NoStats |-> st[f]],
                        !.call = [name |-> "read_samples_with_stats",
                                  rejected |-> {}]]
    /\ UNCHANGED appvars

\* the amp argument set_gains is called with
AmpArgs == {<<>>, <<TRUE>>, <<FALSE>>}

\* the settings of the front end
Knobs == {"AMP", "LNA", "VGA"}

\* the settings a call with these arguments passes to device.setGain
Attempted(amp, lna, vga) ==
    {k \in Knobs : \/ k = "AMP" /\ amp # <<>>
                   \/ k = "LNA" /\ lna # <<>>
                   \/ k = "VGA" /\ vga # <<>>}

set_gains ==
    /\ tuner.steps < env.cap
    /\ \E amp \in AmpArgs, lna \in GainArgs, vga \in GainArgs :
       \E rej \in SUBSET Attempted(amp, lna, vga) :
          tuner' = [SetGains(tuner, amp, lna, vga, rej) EXCEPT
                      !.steps = @ + 1,
                      !.call = [name |-> "set_gains",
                                rejected |-> IF tuner.ready THEN rej ELSE {}]]
    /\ UNCHANGED appvars

auto_gain ==
    /\ tuner.steps < env.cap
    /\ \E r \in Readings :
          tuner' = [AutoGain(tuner, r) EXCEPT
                      !.steps = @ + 1,
                      !.call = [name |-> "auto_gain", rejected |-> {}]]
    /\ UNCHANGED appvars

\* asyncio.Queue(maxsize=100) of event_stream
QueueMax == 100

\* the clients of GET /events
Clients == {"c1", "c2"}

\* what the event actions leave alone
ctlvars == <<scanning, focused_freq_hz, stop_event, scanner_task, demod_proc,
             demod_alive, was_scanning_before_focus, config, cfgfile, scanner,
             db, ncap, env, clock, tuner, hist>>

\* a variant of BroadcastTo: a full queue stays in the subscriber set
BroadcastKeepFull(subs, qs) ==
    [subscribers |-> subs,
     queues      |-> [c \in DOMAIN qs |->
                        IF c \in subs /\ qs[c] < QueueMax THEN qs[c] + 1
                        ELSE qs[c]]]

\* _broadcast(event) over the subscriber set subs and the queues qs:
\* put_nowait on every queue of the set; the queues that raise QueueFull
\* are discarded from the set afterwards
BroadcastTo(subs, qs) ==
    LET dead == {c \in subs : qs[c] >= QueueMax}
    IN  [subscribers |-> subs \ dead,
         queues      |-> [c \in DOMAIN qs |->
                            IF c \in subs \ dead THEN qs[c] + 1 ELSE qs[c]]]

\* one call of _broadcast, by whichever caller
broadcast ==
    /\ LET r == BroadcastTo(subscribers, queues)
       IN  /\ subscribers' = r.subscribers
           /\ queues' = r.queues
    /\ op' = Step("broadcast", <<>>)
    /\ UNCHANGED ctlvars

\* GET /events up to the loop of event_stream: a queue is made and added to
\* the subscriber set
events_open ==
    \E c \in Clients \ DOMAIN queues :
        /\ queues' = [x \in DOMAIN queues \cup {c} |->
                        IF x = c THEN 0 ELSE queues[x]]
        /\ subscribers' = subscribers \cup {c}
        /\ op' = Step("events_open", <<>>)
        /\ UNCHANGED ctlvars

\* the loop of event_stream gets an item from its queue and yields it
events_next ==
    \E c \in DOMAIN queues :
        /\ queues[c] > 0
        /\ queues' = [queues EXCEPT ![c] = @ - 1]
        /\ op' = Step("events_next", <<>>)
        /\ UNCHANGED subscribers
        /\ UNCHANGED ctlvars

\* the client has disconnected: the loop is left and finally discards the
\* queue from the subscriber set
events_close ==
    \E c \in DOMAIN queues :
        /\ queues' = [x \in DOMAIN queues \ {c} |-> queues[x]]
        /\ subscribers' = subscribers \ {c}
        /\ op' = Step("events_close", <<>>)
        /\ UNCHANGED ctlvars

\* time passes
advance ==
    \E d \in env.ticks :
        /\ clock + d <= env.tmax
        /\ clock' = clock + d
        /\ op' = Step("advance", <<>>)
        /\ UNCHANGED <<scanning, focused_freq_hz, stop_event, scanner_task,
                       demod_proc, demod_alive, was_scanning_before_focus,
                       config, cfgfile, scanner, db, ncap, env, subscribers, queues, tuner, hist>>

\* the values of the limit parameter of GET /candidates
Limits == {-1, 0, 1, 2}

\* GET /candidates?limit=...
get_candidates ==
    \E limit \in Limits :
        /\ op' = [Step("get_candidates", <<"list_top">>) EXCEPT
                    !.rows = ListTop(db, limit), !.limit = limit]
        /\ UNCHANGED <<scanning, focused_freq_hz, stop_event, scanner_task,
                       demod_proc, demod_alive, was_scanning_before_focus,
                       config, cfgfile, scanner, db, ncap, env, subscribers, queues, clock, tuner, hist>>

-----------------------------------------------------------------------------
(* The control-plane specification *)

\* the wall clock when the process starts
StartTime == 1000

\* an environment without the passage of time
BaseEnv == [cap |-> 0, meas |-> {}, ticks |-> {}, tmax |-> StartTime,
            sig |-> {}, hw |-> {}, rd |-> FALSE, sendfail |-> FALSE,
            init |-> {}]

CfgA == [bands |-> << [name |-> "A", channels |-> <<5658>>] >>]

\* AppState() after _on_startup (the configuration is preloaded), and no
\* capture made
InitApp(e) ==
    /\ scanning = FALSE
    /\ focused_freq_hz = 0
    /\ stop_event = FALSE
    /\ scanner_task = "none"
    /\ demod_proc = "none"
    /\ demod_alive = FALSE
    /\ was_scanning_before_focus = FALSE
    /\ cfgfile \in {NoFile, File(CfgA)}
    /\ config = LoadConfig(cfgfile)
    /\ scanner = NoScanner
    /\ db = EmptyTable
    /\ ncap = 0
    /\ env = e
    /\ subscribers = {}
    /\ queues = <<>>
    /\ clock = StartTime
    /\ op = Step("init", <<>>)
    /\ hist = InitHist

\* the server process alone
InitState(e) == InitApp(e) /\ tuner = NoTuner

Init == InitState([BaseEnv EXCEPT !.cap = MaxCaptures, !.meas = Measurements])

Next ==
    \/ scan_start
    \/ scan_stop
    \/ focus
    \/ focus_stop
    \/ demod_exit
    \/ scanner_start
    \/ scanner_wake

Spec == Init /\ [][Next]_vars

\* the control plane with the configuration requests
InitCfg ==
    InitState([BaseEnv EXCEPT !.cap = MaxCfgCaptures,
                              !.meas = {[p |-> -40, s |-> 20]}])

NextCfg ==
    \/ Next
    \/ put_config
    \/ get_config

SpecCfg == InitCfg /\ [][NextCfg]_vars

-----------------------------------------------------------------------------
(* The scanner specification: Scanner.run driven on a Scanner built with
   parameters of its constructor's range, never stopped *)

ScanMeasurements ==
    { [p |-> -90, s |-> 0], [p |-> -70, s |-> 8], [p |-> -40, s |-> 20] }

ScanFreqs == { <<5658>>, <<5658, 5806>> }

\* alert_hits, alert_window
ScanAlerts == { <<3, 5>>, <<2, 3>>, <<2, 1>> }

ScanAlphas == { [n |-> 1, d |-> 10], [n |-> 1, d |-> 2] }

\* a Scanner whose run() is at its first resumption
InitScan ==
    /\ scanning = TRUE
    /\ focused_freq_hz = 0
    /\ stop_event = FALSE
    /\ scanner_task = "sleeping"
    /\ demod_proc = "none"
    /\ demod_alive = FALSE
    /\ was_scanning_before_focus = FALSE
    /\ cfgfile = NoFile
    /\ config = LoadConfig(cfgfile)
    /\ \E freqs \in ScanFreqs, a \in ScanAlerts, alpha \in ScanAlphas :
          scanner = NewScanner(freqs, 6, a[1], a[2], alpha)
    /\ db = EmptyTable
    /\ ncap = 0
    /\ env = [BaseEnv EXCEPT !.cap = MaxObs, !.meas = ScanMeasurements]
    /\ subscribers = {}
    /\ queues = <<>>
    /\ clock = StartTime
    /\ tuner = NoTuner
    /\ op = Step("init", <<>>)
    /\ hist = [InitHist EXCEPT !.fed = [f \in Range(scanner.freqs_hz) |-> NoFed],
                               !.live = 1]

NextScan == scanner_wake

SpecScan == InitScan /\ [][NextScan]_vars

-----------------------------------------------------------------------------
(* The timed specification: the scanner started and stopped by
   /scan/start and /scan/stop, the clock, and GET /candidates *)

\* what band_metrics may return in the timed specification
ClockMeasurements == { [p |-> -90, s |-> -10], [p |-> -40, s |-> 20] }

\* captures over one behaviour of the timed specification
MaxClockCaptures == 2
\* advances of the clock (of 100 ms each) over one behaviour
MaxTicks == 3

InitClock ==
    InitState([BaseEnv EXCEPT !.cap = MaxClockCaptures,
                              !.meas = ClockMeasurements,
                              !.ticks = {100},
                              !.tmax = StartTime + 100 * MaxTicks])

NextClock ==
    \/ scan_start
    \/ scan_stop
    \/ scanner_start
    \/ scanner_wake
    \/ advance
    \/ get_candidates

SpecClock == InitClock /\ [][NextClock]_vars

-----------------------------------------------------------------------------
(* The hardware specification: the scanner on SoapyHackRFSampler
   (RER_USE_HW=1), started and stopped by /scan/start and /scan/stop *)

\* what band_metrics may return in the hardware specification
HwMeasurements == { [p |-> -90, s |-> -10], [p |-> -40, s |-> 20] }

\* captures over one behaviour of the hardware specification
MaxHwCaptures == 2

InitHw ==
    InitState([BaseEnv EXCEPT !.cap = MaxHwCaptures,
                              !.meas = HwMeasurements,
                              !.hw = DriverScripts])

NextHw ==
    \/ scan_start
    \/ scan_stop
    \/ scanner_start
    \/ scanner_wake

SpecHw == InitHw /\ [][NextHw]_vars

-----------------------------------------------------------------------------
(* The tuning specification: run() of the demodulator on the hardware path,
   gains left alone, the signal anywhere; the line specification: the same
   with the signal at the requested frequency, and the line-length estimator
   applied on its own; the gain specification: set_gains and auto_gain *)

\* iterations of the main loop of run() over one behaviour
MaxTrackTicks == 2
\* the same, in the line specification
MaxLineTicks == 2
\* calls of set_gains and auto_gain over one behaviour
MaxGainCalls == 3

\* --sample-rate
SampleRates == {8000000, 75000000}

\* --height, --fps
RasterArgs == {<<240, 10>>, <<1, 4000>>}

\* a demodulator started with any of the arguments
SpawnTuner ==
    \E sr \in SampleRates, prefer_ntsc \in BOOLEAN, ra \in RasterArgs :
        tuner = [NewTuner(TRUE, sr, prefer_ntsc) EXCEPT !.height = ra[1],
                                                       !.fps = ra[2]]

InitTune ==
    /\ InitApp([BaseEnv EXCEPT !.cap = MaxTrackTicks, !.sig = SignalAt])
    /\ SpawnTuner

NextTune ==
    \/ initial_lock
    \/ track

SpecTune == InitTune /\ [][NextTune]_vars

InitLine ==
    /\ InitApp([BaseEnv EXCEPT !.cap = MaxLineTicks, !.sig = {"centre"}])
    /\ SpawnTuner

NextLine ==
    \/ initial_lock
    \/ track
    \/ estimate

SpecLine == InitLine /\ [][NextLine]_vars

InitGain ==
    /\ InitApp([BaseEnv EXCEPT !.cap = MaxGainCalls])
    /\ \E ready \in BOOLEAN : tuner = NewTuner(ready, 8000000, FALSE)

NextGain ==
    \/ set_gains
    \/ auto_gain

SpecGain == InitGain /\ [][NextGain]_vars

-----------------------------------------------------------------------------
(* The gain-control specification: one call of auto_gain on a signal whose
   RMS follows the gains *)

\* the RMS of the signal at the gains the call starts with: 0.01, 0.05,
\* 0.25, 0.6
StartRms == {1000, 5000, 25000, 60000}

\* the gains <<lna, vga>> the call starts with: the defaults and the ends
\* of the ranges
StartGains == {<<28, 16>>, <<0, 0>>, <<40, 62>>}

InitAgc ==
    /\ InitApp(BaseEnv)
    /\ \E ready \in BOOLEAN, x \in StartRms, g \in StartGains :
          tuner = [NewTuner(ready, 8000000, FALSE) EXCEPT
                     !.lna_gain = g[1], !.vga_gain = g[2],
                     !.agc.start = x, !.agc.lna0 = g[1], !.agc.vga0 = g[2]]

NextAgc ==
    \/ agc_probe
    \/ agc_iter
    \/ agc_exit

SpecAgc == InitAgc /\ [][NextAgc]_vars

-----------------------------------------------------------------------------
(* The event specification: the clients of GET /events and the broadcasts *)

InitEvents == InitState(BaseEnv)

NextEvents ==
    \/ events_open
    \/ events_next
    \/ events_close
    \/ broadcast

SpecEvents == InitEvents /\ [][NextEvents]_vars

-----------------------------------------------------------------------------
(* The fine-tuning specification: the main loop with each AFC probe
   measuring any quality near that of the frame *)

\* iterations of the main loop over one behaviour
MaxAfcTicks == 1

InitAfc ==
    /\ InitApp([BaseEnv EXCEPT !.cap = MaxAfcTicks, !.sig = {"centre", "any"}])
    /\ tuner = NewTuner(TRUE, 8000000, FALSE)

NextAfc ==
    \/ initial_lock
    \/ track

SpecAfc == InitAfc /\ [][NextAfc]_vars

-----------------------------------------------------------------------------
(* The statistics specification: read_samples_with_stats over raw values at
   and next to the rails *)

InitStats ==
    /\ InitApp(BaseEnv)
    /\ \E ready \in BOOLEAN, format \in {"CS16", "CS8"} :
          tuner = [NewTuner(ready, 8000000, FALSE) EXCEPT !.format = format]

NextStats == read_samples_with_stats

SpecStats == InitStats /\ [][NextStats]_vars

-----------------------------------------------------------------------------
(* The configuration-field specification: the scanner started on a
   configuration in which any of the fields is missing, or one is of the
   wrong type *)

\* captures over one behaviour of the configuration-field specification
MaxFieldCaptures == 1

\* the "bands" field: missing, a band without channels, a band with channels
BandChoices ==
    {EmptyDict,
     [bands |-> << [name |-> "B"] >>],
     [bands |-> << [name |-> "B", channels |-> <<5695, 5732>>] >>]}

\* the "alert_persistence" field: missing, or with any of its two fields
AlertChoices ==
    {EmptyDict}
    \cup {[alert_persistence |-> a] :
            a \in {EmptyDict, [hits |-> 2], [window |-> 4],
                   [hits |-> 2, window |-> 4]}}

\* a scalar field: missing, or present with a value other than its default
ScalarChoices(k, v) == {EmptyDict, [x \in {k} |-> v]}

\* the union of dicts with disjoint keys
Merge(a, b) ==
    [k \in DOMAIN a \cup DOMAIN b |-> IF k \in DOMAIN a THEN a[k] ELSE b[k]]

\* the configurations in which any subset of the fields is missing
PartialConfigs ==
    {Merge(b, Merge(al, Merge(d, Merge(sr, Merge(bw, snr))))) :
        b \in BandChoices, al \in AlertChoices,
        d \in ScalarChoices("dwell_ms", 20),
        sr \in ScalarChoices("sample_rate", 10000000),
        bw \in ScalarChoices("channel_bw_hz", 6000000),
        snr \in ScalarChoices("min_snr_db", 2)}

\* a full configuration
FullConfig ==
    [bands |-> << [name |-> "B", channels |-> <<5695, 5732>>] >>,
     dwell_ms |-> 20, sample_rate |-> 10000000, channel_bw_hz |-> 6000000,
     min_snr_db |-> 2, alert_persistence |-> [hits |-> 2, window |-> 4]]

\* the full configuration with one field of the wrong type
MalformedConfigs ==
    {Merge(FullConfig, [x \in {"bad"} |-> {k}]) :
        k \in {"dwell_ms", "sample_rate", "bands", "band", "alert_persistence"}}

\* the configuration file holds one of these configurations at startup
InitFields ==
    /\ scanning = FALSE
    /\ focused_freq_hz = 0
    /\ stop_event = FALSE
    /\ scanner_task = "none"
    /\ demod_proc = "none"
    /\ demod_alive = FALSE
    /\ was_scanning_before_focus = FALSE
    /\ cfgfile \in {File(c) : c \in PartialConfigs \cup MalformedConfigs}
    /\ config = LoadConfig(cfgfile)
    /\ scanner = NoScanner
    /\ db = EmptyTable
    /\ ncap = 0
    /\ env = [BaseEnv EXCEPT !.cap = MaxFieldCaptures,
                             !.meas = {[p |-> -40, s |-> 20]}]
    /\ subscribers = {}
    /\ queues = <<>>
    /\ clock = StartTime
    /\ op = Step("init", <<>>)
    /\ hist = InitHist
    /\ tuner = NoTuner

NextFields ==
    \/ scan_start
    \/ scan_stop
    \/ scanner_start
    \/ scanner_wake

SpecFields == InitFields /\ [][NextFields]_vars

-----------------------------------------------------------------------------
(* The controller specification: run() from the construction of the stream
   to its return, the reads of the main loop made one by one, signals,
   a transport that may fail and a device that may stop delivering; and the
   fallback specification: run() without usable hardware, the transport
   working *)

\* iterations of the hardware main loop over one behaviour
MaxRunTicks == 2

\* --width
Widths == {320, 1}

\* the outcomes of HackRFStream.__init__ that leave no usable stream
FailingInit == InitOutcomes \ {"ok", "cs8"}

\* a controller process just started, RER_USE_HW set to 1 or not
SpawnController ==
    \E sr \in SampleRates, prefer_ntsc \in BOOLEAN, ra \in RasterArgs,
       w \in Widths, use_hw \in BOOLEAN :
        tuner = [NewTuner(FALSE, sr, prefer_ntsc) EXCEPT !.height = ra[1],
                                                        !.fps = ra[2],
                                                        !.width = w,
                                                        !.use_hw = use_hw,
                                                        !.phase = "spawned"]

InitRun ==
    /\ InitApp([BaseEnv EXCEPT !.cap = MaxRunTicks, !.sig = {"centre"},
                               !.rd = TRUE, !.sendfail = TRUE,
                               !.init = InitOutcomes])
    /\ SpawnController

\* the steps of the controller itself
ControllerStep ==
    \/ controller_start
    \/ initial_lock
    \/ begin_iter
    \/ read_step
    \/ track
    \/ synth_frame
    \/ leave

NextRun ==
    \/ ControllerStep
    \/ sigterm
    \/ driver_dies
    \/ raster

\* the process is scheduled: a step it can take is taken
SpecRun == InitRun /\ [][NextRun]_vars /\ WF_vars(ControllerStep)

InitFallback ==
    /\ InitApp([BaseEnv EXCEPT !.rd = TRUE, !.init = FailingInit])
    /\ SpawnController
    /\ cfgfile = NoFile

\* the steps of the controller itself
FallbackStep ==
    \/ controller_start
    \/ begin_iter
    \/ synth_frame
    \/ leave

NextFallback ==
    \/ FallbackStep
    \/ sigterm

SpecFallback == InitFallback /\ [][NextFallback]_vars /\ WF_vars(FallbackStep)

-----------------------------------------------------------------------------
(* The synthetic scanner scenario: a fresh Scanner with the default
   parameters sweeping with the SyntheticSampler (hw_capture.py) *)

HotFreq == 5806

MaxSweeps == 5

\* band_metrics of a SyntheticSampler capture (120000 samples at 8 MHz):
\* complex Gaussian noise of variance 2 * 0.2^2 = 0.08 gives a band power of
\* 10 log10(0.08), about -11 dB; the 10 kHz tone of the hot channel lies
\* inside the DC guard (channel_bw_hz * 0.00625 = 50 kHz) and is masked out
\* of the band, so on every channel the SNR is the ratio of the mean to the
\* median of the noise bins, 10 log10(1 / ln 2), about 1.6 dB (here 1 or 2)
SyntheticMetrics == { [p |-> -11, s |-> 1], [p |-> -11, s |-> 2] }

SynthFreqs == <<5769, HotFreq>>

InitSynth ==
    /\ scanning = TRUE
    /\ focused_freq_hz = 0
    /\ stop_event = FALSE
    /\ scanner_task = "sleeping"
    /\ demod_proc = "none"
    /\ demod_alive = FALSE
    /\ was_scanning_before_focus = FALSE
    /\ cfgfile = NoFile
    /\ config = LoadConfig(cfgfile)
    /\ scanner = NewScanner(SynthFreqs, 6, 3, 5, EmaAlphaApi)
    /\ db = EmptyTable
    /\ ncap = 0
    /\ env = [BaseEnv EXCEPT !.cap = MaxSweeps * Len(SynthFreqs),
                             !.meas = SyntheticMetrics]
    /\ subscribers = {}
    /\ queues = <<>>
    /\ clock = StartTime
    /\ tuner = NoTuner
    /\ op = Step("init", <<>>)
    /\ hist = [InitHist EXCEPT !.fed = [f \in Range(SynthFreqs) |-> NoFed],
                               !.live = 1]

NextSynth == scanner_wake

SpecSynth == InitSynth /\ [][NextSynth]_vars

-----------------------------------------------------------------------------
(* Properties *)

Did(e) == e \in Range(op.ev)

\* the last step was a loop iteration of the scanner (capture to sleep)
Captured == op.name \in {"scanner_start", "scanner_wake"} /\ Did("capture")

TaskAlive == scanner_task \in {"pending", "sleeping"}

\* C1: while a demodulator process spawned by focus is alive, no scanner
\* task is inside its sweep loop and no scanner capture occurs.
C1_MutualExclusion ==
    (demod_proc # "none" /\ demod_alive) =>
        (scanner_task # "sleeping" /\ ~Captured)

\* C2: when focus is requested while the scanner is running, the scanner
\* task has left its sweep loop before the demodulator is spawned.
C2_ScannerLeftLoopBeforeSpawn ==
    op.name = "focus" => ~Did("spawn_scanner_in_loop")

\* what _stop_demod did in a handler, in order
DemodEvents ==
    SelectSeq(op.ev, LAMBDA e : e \in {"terminate", "wait_ok", "wait_timeout",
                                        "kill", "clear_handle"})

\* the positions in the handler at which it created the scanner task
TaskCreations ==
    {k \in DOMAIN op.ev : op.ev[k] \in {"create_task", "create_task_with_demod"}}

\* C3: on unfocus the demodulator is terminated, waited for, killed if (and
\* only if) the wait timed out, and its handle cleared, all before the
\* scanner task is created; no task is created while the handle is set.
C3_DemodStoppedBeforeResume ==
    op.name = "focus_stop" =>
        /\ demod_proc = "none"
        /\ ~demod_alive
        /\ DemodEvents = IF ~op.demod THEN <<>>
                         ELSE IF Did("wait_timeout")
                         THEN <<"terminate", "wait_timeout", "kill", "clear_handle">>
                         ELSE <<"terminate", "wait_ok", "clear_handle">>
        /\ \A k \in TaskCreations :
              /\ op.ev[k] = "create_task"
              /\ \A j \in DOMAIN op.ev :
                    op.ev[j] \in Range(DemodEvents) => j < k

\* an unfocus that had to kill the demodulator and then restarted the scanner
C3_Witness ==
    /\ op.name = "focus_stop"
    /\ Did("kill")
    /\ Did("create_task")
    /\ scanner_task = "pending"

\* C4: if the scanner was running when the focus session began, then once
\* unfocus completes the scanner is running again, whatever the number of
\* focus requests of the session.
C4_UnfocusResumesScan ==
    (op.name = "focus_stop" /\ op.session /\ hist.session_scan) =>
        (scanning /\ TaskAlive)

\* C5: once a stop is signalled to a scanner task and as long as no restart
\* clears it, no capture and no upsert is made, and the task's next step
\* ends it.
C5_StopEndsScanner ==
    [][(stop_event /\ TaskAlive) =>
          /\ ncap' = ncap
          /\ db' = db
          /\ (scanner_task' # scanner_task => scanner_task' = "done")]_vars

\* a scanner that had captured, woke up to the stop signal and ended
C5_Witness ==
    /\ op.name = "scanner_wake"
    /\ Did("exit")
    /\ scanner_task = "done"
    /\ ncap > 0

\* the scanner created by unfocus has started, and the focus that opened the
\* session had stopped a sweeping scanner
RestartedByUnfocus ==
    op.name = "scanner_start" /\ hist.by_unfocus /\ hist.snap.valid

\* C6: the scanner restarted by unfocus sweeps exactly the channel list of
\* the scanner that the preceding focus stopped, whatever was requested
\* during the focus session (and no configuration request was handled
\* before or after the session).
C6_SameChannelList ==
    (RestartedByUnfocus /\ hist.snap.touched \subseteq {"during"}) =>
        scanner.freqs_hz = hist.snap.freqs

\* C7: the first EMA update of a channel after a restart of the scanner
\* starts from the EMA the scanner held for that channel before the stop.
C7_EmaPreservedOverRestart ==
    [][(scanner_task = "pending" /\ scanner_task' = "sleeping"
          /\ op'.f \in DOMAIN scanner.ema_snr_db) =>
          /\ scanner'.ema_snr_db[op'.f] =
                EmaUpdate(scanner.ema_alpha, scanner.ema_snr_db[op'.f], op'.m.s)
          /\ scanner'.ema_power_dbm[op'.f] =
                EmaUpdate(scanner.ema_alpha, scanner.ema_power_dbm[op'.f], op'.m.p)]_vars

\* C8: the first observation of a channel sets its EMAs to the raw
\* measurement; every later one updates them as (1 - alpha) ema + alpha raw.
C8_EmaInitialisedToRaw ==
    [][(op'.name = "scanner_wake" /\ ncap' = ncap + 1) =>
          IF hist.fed[op'.f].n = 0
          THEN /\ scanner'.ema_snr_db[op'.f] = RInt(op'.m.s)
               /\ scanner'.ema_power_dbm[op'.f] = RInt(op'.m.p)
          ELSE /\ scanner'.ema_snr_db[op'.f] =
                     EmaUpdate(scanner.ema_alpha, scanner.ema_snr_db[op'.f], op'.m.s)
               /\ scanner'.ema_power_dbm[op'.f] =
                     EmaUpdate(scanner.ema_alpha, scanner.ema_power_dbm[op'.f], op'.m.p)]_vars

\* C9: with alpha in (0,1), the EMAs of a channel lie between the smallest
\* and the largest raw measurement fed to them, after every update.
C9_EmaWithinInputs ==
    \A f \in DOMAIN hist.fed :
        hist.fed[f].n > 0 =>
            /\ RLe(RInt(hist.fed[f].slo), scanner.ema_snr_db[f])
            /\ RLe(scanner.ema_snr_db[f], RInt(hist.fed[f].shi))
            /\ RLe(RInt(hist.fed[f].plo), scanner.ema_power_dbm[f])
            /\ RLe(scanner.ema_power_dbm[f], RInt(hist.fed[f].phi))

\* the number of true entries of a window
Trues(win) == Len(SelectSeq(win, LAMBDA v : v))

\* C10: after an observation the status is active iff hits >= H and the
\* window holds at least min(M, H) entries; otherwise new iff the
\* observation is a candidate (ema_snr >= min_snr_db); otherwise lost. A
\* channel whose window holds H trues is active even when the latest
\* observation is no candidate.
C10_StatusRule ==
    Captured =>
        LET win    == scanner.activity_windows[op.f]
            hits   == Trues(win)
            cand   == RLe(RInt(scanner.min_snr_db), scanner.ema_snr_db[op.f])
            active == /\ hits >= scanner.alert_hits
                      /\ Len(win) >= Min(scanner.alert_window, scanner.alert_hits)
        IN  /\ op.status = "active" <=> active
            /\ op.status = "new" <=> (~active /\ cand)
            /\ op.status = "lost" <=> (~active /\ ~cand)
            /\ hits >= scanner.alert_hits => op.status = "active"
            /\ db[op.f].status = op.status

\* a channel that stays active on an observation that is no candidate
C10_Witness ==
    /\ Captured
    /\ op.status = "active"
    /\ ~RLe(RInt(scanner.min_snr_db), scanner.ema_snr_db[op.f])
    /\ Len(scanner.activity_windows[op.f]) = scanner.alert_window

\* the statuses the scenario expects of the hot channel, by sweep
ExpectedHotStatus == <<"new", "new", "active", "active", "active">>

\* C11: in the synthetic scenario (alpha 0.1, min_snr 6, H 3, M 5, fresh
\* scanner) the status of the hot channel over its first five sweeps is
\* new, new, active, active, active.
C11_HotChannelStatuses ==
    (Captured /\ op.f = HotFreq /\ hist.fed[HotFreq].n \in DOMAIN ExpectedHotStatus) =>
        op.status = ExpectedHotStatus[hist.fed[HotFreq].n]

\* C12: over any sequence of upserts, with a clock that does not go back, no
\* candidate record disappears, its hits never decrease, its first_seen
\* never changes, and first_seen <= last_seen in every record.
C12_HitsAndSeenTimes ==
    [][/\ \A f \in DOMAIN db :
             /\ f \in DOMAIN db'
             /\ db'[f].hits >= db[f].hits
             /\ db'[f].first_seen = db[f].first_seen
        /\ \A g \in DOMAIN db' : db'[g].first_seen <= db'[g].last_seen]_vars

\* a record upserted twice at different times, one upsert not counting as a hit
C12_Witness ==
    /\ Captured
    /\ db[op.f].first_seen < db[op.f].last_seen
    /\ db[op.f].hits = 1

\* the last step read a snapshot of the store, asked for with a limit K >= 0
TookSnapshot ==
    (op.name = "get_candidates" \/ Did("broadcast")) /\ op.limit >= 0

\* the frequencies of the records of the snapshot
SnapshotFreqs == {op.rows[k].freq_hz : k \in DOMAIN op.rows}

\* C13: a snapshot of K candidates holds at most K records, all of them
\* distinct records of the store, in the order of non-increasing ema_snr,
\* and no stored record left out has a larger ema_snr than one included.
C13_SnapshotTopK ==
    TookSnapshot =>
        /\ Len(op.rows) <= op.limit
        /\ Cardinality(SnapshotFreqs) = Len(op.rows)
        /\ \A k \in DOMAIN op.rows :
              /\ op.rows[k].freq_hz \in DOMAIN db
              /\ op.rows[k].ema_snr = db[op.rows[k].freq_hz].ema_snr
              /\ k > 1 => RLe(op.rows[k].ema_snr, op.rows[k - 1].ema_snr)
              /\ \A f \in DOMAIN db \ SnapshotFreqs :
                    RLe(db[f].ema_snr, op.rows[k].ema_snr)

\* snapshots of one and of two records of a store of two records of
\* different ema_snr, the one of the larger key having the larger ema_snr
C13_Witness ==
    /\ op.name = "get_candidates"
    /\ op.limit \in {1, 2}
    /\ Len(op.rows) = op.limit
    /\ DOMAIN db = {5658, 5695}
    /\ RLt(db[5658].ema_snr, db[5695].ema_snr)

\* C14: two consecutive candidate-snapshot broadcasts of the process are at
\* least 200 ms apart, whatever the scanner stops and restarts between them.
C14_BroadcastsAtLeast200msApart ==
    (Did("broadcast") /\ op.since >= 0) => op.since >= 200

\* C15: after any sequence of scan-start, scan-stop, focus and unfocus
\* requests at most one scanner task is alive, and a capture (with its EMA
\* update and upsert) is made by the only task alive.
C15_SingleScannerTask ==
    /\ hist.live <= 1
    /\ Captured => hist.live = 1

\* a scan-start handled while the task stopped before it has not ended yet
C15_Witness ==
    /\ op.name = "scan_start"
    /\ scanner_task = "sleeping"
    /\ ncap > 0
    /\ hist.live = 1

\* C16: throughout a controller session the tuned frequency stays within
\* 5 MHz of the frequency requested at spawn.
C16_TunedWithinSearchRadius ==
    tuner.phase = "tracking" => Abs(tuner.tuned) <= 5000

\* len lies in [sr / (f_line * 1.15), sr / (f_line * 0.85)] up to the
\* truncation to an integer
InLineRange(len, sr, f_line) ==
    /\ (len + 1) * f_line * 23 > sr * 20
    /\ len * f_line * 17 <= sr * 20

\* C17: every line length the estimator returns lies in the range of the line
\* rate searched (of one of the two when none is preferred), whatever the
\* envelope length, and so does the line length of the tracking loop.
C17_LineLenInRange ==
    /\ (tuner.est.made /\ ~tuner.est.raised) =>
          \/ /\ tuner.est.prefer \in {"ntsc", "none"}
             /\ InLineRange(tuner.est.len, tuner.sample_rate, LineRateNTSC)
          \/ /\ tuner.est.prefer \in {"pal", "none"}
             /\ InLineRange(tuner.est.len, tuner.sample_rate, LineRatePAL)
    /\ tuner.phase = "tracking" =>
          InLineRange(tuner.line_len, tuner.sample_rate,
                      IF tuner.prefer_ntsc THEN LineRateNTSC ELSE LineRatePAL)

\* the tracking loop has estimated the line length on a short envelope, and
\* the estimator was last applied to a long one with no preference, the PAL
\* search winning with the last lag of its window
C17_Witness ==
    /\ tuner.phase = "tracking"
    /\ tuner.steps > 0
    /\ tuner.samples_per_iter < 4096
    /\ tuner.est.made
    /\ tuner.est.prefer = "none"
    /\ tuner.est.n = 65535
    /\ tuner.est.len = MaxLen(tuner.sample_rate, LineRatePAL) - 1

\* C18: the gains of the hardware stream stay within lna 0..40 and
\* vga 0..62, whatever set_gains is called with and whatever the AGC does.
C18_GainsInBounds ==
    /\ tuner.lna_gain \in 0..40
    /\ tuner.vga_gain \in 0..62

\* the AGC has driven both gains to their upper bounds after set_gains was
\* called with arguments out of range
C18_Witness ==
    /\ tuner.ready
    /\ tuner.steps >= 2
    /\ tuner.lna_gain = 40
    /\ tuner.vga_gain = 62

\* C19: capture never raises on any backend: whatever the driver does, the
\* scanner gets a buffer and goes on to the next channel.
C19_CaptureNeverRaises ==
    \A k \in DOMAIN op.ev : op.ev[k] # "capture_raised"

\* C20: once a 16-bit read of the hardware backend has returned a
\* non-positive count, every later read uses the 8-bit format.
C20_FallbackIsSticky ==
    \A i, j \in DOMAIN op.reads :
        (i < j /\ op.reads[i].fmt = "CS16" /\ op.reads[i].ret = "nonpos")
            => op.reads[j].fmt = "CS8"

\* C23: after any sequence of focus and unfocus requests at most one
\* demodulator subprocess spawned by the control plane is alive.
C23_SingleDemodulator ==
    /\ hist.demods <= 1
    /\ demod_alive => hist.demods = 1

\* a focus on top of a focus: the previous demodulator did not end within
\* the wait and was killed, and the next one is running
C23_Witness ==
    /\ op.name = "focus"
    /\ op.session
    /\ \E k \in DOMAIN op.ev : op.ev[k] = "kill"
    /\ demod_alive
    /\ hist.demods = 1

\* run() has ended, by return or by an exception
Exited == tuner.phase \in {"returned", "crashed"}

\* C21: after a stop signal the controller publishes at most one further
\* frame, then leaves its loop, closes the stream and the publisher, and
\* returns.
C21_StopsAfterSignal ==
    /\ [](tuner.after_stop <= 1)
    /\ tuner.stop ~> (Exited /\ ~tuner.ready /\ tuner.pub = "closed")

\* C22: on every exit path of the controller after the hardware stream has
\* been opened the stream is deactivated and closed, and stream and device
\* are left unset.
C22_StreamReleasedOnExit ==
    (Exited /\ tuner.opened) =>
        /\ ~tuner.ready
        /\ tuner.closes = <<"deactivateStream", "closeStream">>

\* an exception of the publisher has ended a controller that was tracking on
\* an open stream after the stop signal
C22_Witness ==
    /\ tuner.phase = "crashed"
    /\ tuner.cause = "send"
    /\ tuner.opened
    /\ tuner.stop
    /\ tuner.steps = 1
    /\ tuner.closes # <<>>

\* C24: every frame published, on the hardware path and on the fallback
\* path, and every frame assembled from a non-empty envelope and a line
\* length within bounds, holds width * height bytes, for the width and
\* height of its metadata, a short envelope being padded.
C24_FrameSize ==
    tuner.frame.made =>
        /\ ~tuner.frame.raised
        /\ tuner.frame.width = tuner.width
        /\ tuner.frame.height = tuner.height
        /\ tuner.frame.bytes = tuner.width * tuner.height

\* a frame of more than one byte assembled from an envelope of one sample
C24_Witness ==
    /\ tuner.frame.made
    /\ tuner.frame.path = "raster"
    /\ tuner.frame.pad > 0
    /\ tuner.height = 240
    /\ tuner.width = 320
    /\ tuner.frame.bytes = 76800

\* the controller without usable hardware is on the fallback path, has not
\* failed, has returned only on a stop signal, and its frames carry the
\* requested frequency
FallbackSafe ==
    /\ tuner.phase \in {"spawned", "synthetic", "drawing", "returned"}
    /\ tuner.phase = "returned" => tuner.stop
    /\ tuner.frame.made =>
          /\ tuner.frame.path = "synthetic"
          /\ tuner.frame.freq = 0
          /\ tuner.frame.bytes = tuner.width * tuner.height

\* C25: if hardware is not enabled or the stream fails to initialise, the
\* controller does not fail: it publishes synthetic frames with the
\* requested frequency, again and again until a stop signal is observed.
C25_FallbackPublishes ==
    /\ []FallbackSafe
    /\ (tuner.phase \in {"spawned", "synthetic"} /\ ~tuner.stop)
          ~> (tuner.phase = "drawing" \/ tuner.stop)
    /\ (tuner.phase = "drawing") ~> (tuner.phase = "synthetic")

\* hardware was enabled, activateStream threw, and a synthetic frame has
\* been published
C25_Witness ==
    /\ tuner.use_hw
    /\ tuner.opened
    /\ ~tuner.ready
    /\ tuner.phase = "synthetic"
    /\ tuner.frame.made
    /\ ~tuner.stop

\* C30: a hardware read returns after finitely many driver reads even when
\* the driver returns a non-positive count on every read, so the tracking
\* loop reaches its next stop check.
C30_ReadReturns ==
    (tuner.phase = "reading") ~> (tuner.phase # "reading")

\* the value a Scanner parameter must have: the configured one if the field
\* is present, else the default
FieldOr(d, k, default) == IF k \in DOMAIN d THEN d[k] ELSE default

\* a Scanner has been constructed
Constructed == scanner.freqs_hz # <<>>

\* C26: whichever of the fields bands/channels, dwell_ms, sample_rate,
\* channel_bw_hz, min_snr_db, alert_persistence.hits and
\* alert_persistence.window are missing, the scanner is constructed with
\* the default for each missing field and the configured value for each
\* field present.
C26_DefaultsForMissingFields ==
    Constructed =>
        LET cfg   == EffectiveConfig(config, cfgfile)
            alert == FieldOr(cfg, "alert_persistence", EmptyDict)
            chans == IF "bands" \in DOMAIN cfg
                        /\ "channels" \in DOMAIN cfg.bands[1]
                     THEN cfg.bands[1].channels ELSE Raceband
        IN  /\ scanner.freqs_hz = chans
            /\ scanner.dwell_ms = FieldOr(cfg, "dwell_ms", 15)
            /\ scanner.sample_rate_hz = FieldOr(cfg, "sample_rate", 8000000)
            /\ scanner.channel_bw_hz = FieldOr(cfg, "channel_bw_hz", 8000000)
            /\ scanner.min_snr_db = FieldOr(cfg, "min_snr_db", 6)
            /\ scanner.alert_hits = FieldOr(alert, "hits", 3)
            /\ scanner.alert_window = FieldOr(alert, "window", 5)

\* a scanner built on a configuration that has alert_persistence with the
\* window only, the dwell and the bandwidth, and a band without channels
C26_Witness ==
    /\ Constructed
    /\ ncap = 1
    /\ DOMAIN config = {"bands", "alert_persistence", "dwell_ms", "channel_bw_hz"}
    /\ DOMAIN config.alert_persistence = {"window"}
    /\ scanner.alert_hits = 3
    /\ scanner.alert_window = 4
    /\ scanner.dwell_ms = 20
    /\ scanner.sample_rate_hz = 8000000
    /\ scanner.freqs_hz = Raceband

\* C27: a configuration with a malformed field never aborts scanner
\* startup: the scanner starts, with the default for that field.
C27_MalformedNeverAborts ==
    \A k \in DOMAIN op.ev : op.ev[k] # "config_raised"

\* C28: an iteration of the AGC that observes clip > 0.01 leaves the VGA
\* gain at max(0, vga - 6), vga being the gain the iteration started with.
C28_ClipLowersVgaBySix ==
    (tuner.agc.iter > 0 /\ tuner.agc.saw_clip) =>
        tuner.vga_gain = Max(0, tuner.agc.vga_before - 6)

\* C29: from an RMS of 0.05 at the default gains, with no reading showing
\* clip > 0.01, the AGC returns with the RMS in [0.18, 0.35].
C29_ConvergesFromLowRms ==
    (/\ tuner.agc.phase = "done"
     /\ tuner.ready
     /\ tuner.agc.start = 5000
     /\ tuner.agc.lna0 = 28 /\ tuner.agc.vga0 = 16
     /\ ~tuner.agc.clipped)
    => (18000 <= tuner.agc.rms /\ tuner.agc.rms <= 35000)

\* C31: set_gains changes nothing it cannot apply: when the stream is not
\* ready all of lna_gain, vga_gain and amp_enabled keep their values, and
\* when the driver rejects the LNA, VGA or AMP setting the attribute of that
\* setting keeps its value.
C31_RejectedSettingUnchanged ==
    [][tuner'.call.name = "set_gains" =>
         /\ ~tuner.ready =>
               /\ tuner'.lna_gain = tuner.lna_gain
               /\ tuner'.vga_gain = tuner.vga_gain
               /\ tuner'.amp_enabled = tuner.amp_enabled
         /\ "AMP" \in tuner'.call.rejected =>
               tuner'.amp_enabled = tuner.amp_enabled
         /\ "LNA" \in tuner'.call.rejected =>
               tuner'.lna_gain = tuner.lna_gain
         /\ "VGA" \in tuner'.call.rejected =>
               tuner'.vga_gain = tuner.vga_gain]_vars

\* C32: the clip fraction read_samples_with_stats returns is the number of
\* raw values v with |v| >= fullscale - 1 (32767 for 16-bit reads, 127 for
\* 8-bit reads) over the number of raw values read.
C32_ClipFractionAtRails ==
    (tuner.stats.made /\ tuner.stats.raw > 0) =>
        /\ tuner.stats.raw = Len(tuner.stats.vals16) + Len(tuner.stats.vals8)
        /\ tuner.stats.clips = CountRails(tuner.stats.vals16, 32767)
                                + CountRails(tuner.stats.vals8, 127)

\* some probe of the AFC round a measures a quality more than 0.02 above q
SomeProbeBetter(a) == \E df \in DOMAIN a.probes : a.probes[df] > a.q + 2

\* C33: in a tracking tick that does not re-lock, tuned_freq changes iff
\* some probe at -50, -25, +25 or +50 kHz measures a quality more than 0.02
\* above the tick's quality q; the change is then one of the four offsets,
\* whose probe measured more than q + 0.02.
C33_AfcCommitRule ==
    [][(tuner'.afc.made /\ tuner'.steps = tuner.steps + 1) =>
         LET a  == tuner'.afc
             df == tuner'.tuned - tuner.tuned
         IN  /\ df # 0 <=> SomeProbeBetter(a)
             /\ df # 0 => /\ df \in {-50, -25, 25, 50}
                          /\ a.probes[df] > a.q + 2]_vars

\* a tick has committed -25 kHz although the probe at +50 kHz measured more
\* than the one at -25 kHz
C33_Witness ==
    /\ tuner.afc.made
    /\ tuner.steps = 1
    /\ tuner.frame.made
    /\ tuner.afc.probes[-50] = tuner.afc.q + 2
    /\ tuner.afc.probes[-25] = tuner.afc.q + 3
    /\ tuner.afc.probes[50] = tuner.afc.q + 3
    /\ tuner.lo = tuner.tuned

\* C35: at the main capture of a tracking tick the device is tuned to
\* tuned_freq, and the freq_hz of a frame published on the hardware path is
\* the frequency the device was tuned to when the frame's samples were read.
C35_FrameFreqIsCaptureLo ==
    /\ tuner.phase \in {"tracking", "reading", "have_iq"} =>
          tuner.lo = tuner.tuned
    /\ (tuner.frame.made /\ tuner.frame.path = "hw") =>
          tuner.frame.freq = tuner.frame.lo

\* C34: a broadcast enqueues the event for every subscriber whose queue has
\* room and removes from the subscriber set every subscriber whose queue is
\* full (100 items); a removed subscriber gets no later event; no queue ever
\* holds more than 100 items.
C34_BroadcastDropsFullQueues ==
    /\ [][op'.name = "broadcast" =>
            \A c \in subscribers :
                IF queues[c] < 100
                THEN c \in subscribers' /\ queues'[c] = queues[c] + 1
                ELSE c \notin subscribers' /\ queues'[c] = queues[c]]_vars
    /\ [][\A c \in (DOMAIN queues \cap DOMAIN queues') \ subscribers :
            c \notin subscribers' /\ queues'[c] <= queues[c]]_vars
    /\ [](\A c \in DOMAIN queues : queues[c] <= 100)

\* one client has been removed from the subscriber set with its queue full
\* while the other is still subscribed, and a broadcast has just been made
C34_Witness ==
    /\ op.name = "broadcast"
    /\ DOMAIN queues = Clients
    /\ \E c \in Clients : c \notin subscribers /\ queues[c] = 100
    /\ \E c \in Clients : c \in subscribers /\ queues[c] = 37

\* C36: whenever state.scanning is true there is a scanner task that has
\* not finished, also after a scanner task has ended by an exception.
C36_ScanningHasLiveTask ==
    scanning => scanner_task \in {"pending", "sleeping"}

\* C37: an unfocus request handled while no focus session is active leaves
\* the scan state as it is: it neither starts nor stops the scanner.
C37_UnfocusWithoutSessionKeepsScan ==
    [][(op'.name = "focus_stop" /\ focused_freq_hz = 0) =>
          /\ scanning' = scanning
          /\ scanner_task' = scanner_task
          /\ stop_event' = stop_event]_vars

\* C38: the activity window of a channel holds its last M observations
\* only: once the latest M observations of the channel were all no
\* candidates, the window holds no true entry and the status handed to the
\* store is "lost", whatever was observed before (H >= 1).
C38_WindowForgetsAfterM ==
    \A f \in DOMAIN hist.fed :
        LET win == scanner.activity_windows[f]
        IN  /\ Len(win) <= scanner.alert_window
            /\ (/\ scanner.alert_hits >= 1
                /\ hist.fed[f].n > 0
                /\ hist.fed[f].misses >= scanner.alert_window)
               => /\ Hits(win) = 0
                  /\ (op.f = f /\ op.status # "") => op.status = "lost"

\* a channel that was a candidate and then, for the M = 3 observations of
\* its window, none
C38_Witness ==
    \E f \in DOMAIN hist.fed :
        /\ scanner.alert_window = 3
        /\ hist.fed[f].misses = 3
        /\ hist.fed[f].n > 3
        /\ op.f = f
        /\ op.status = "lost"

\* the rationals a and b are equal to two decimals
SameTo2(a, b) ==
    /\ RLe(Round2(a), Round2(b))
    /\ RLe(Round2(b), Round2(a))

\* C39: after every upsert the ema_snr and ema_power stored for the channel
\* equal, to two decimals, the EMA values the scanner holds for it.
C39_StoredEmaIsScannerEma ==
    (op.f \in DOMAIN db /\ \E k \in DOMAIN op.ev : op.ev[k] = "upsert") =>
        /\ SameTo2(db[op.f].ema_snr, scanner.ema_snr_db[op.f])
        /\ SameTo2(db[op.f].ema_power, scanner.ema_power_dbm[op.f])

=============================================================================
